---- MODULE Spec2Model ----
(***************************************************************************)
(* LR-Micromouse-AI: the Q-learning agent (src/js/ai.js), the maze         *)
(* (src/js/maze.js), the mouse (first Mouse class of src/unnamed/part_001) *)
(* and the driver script that follows the markup in src/index.html.        *)
(*                                                                         *)
(* The driver imports QLearningAgent from './ai.js'; the agent modelled    *)
(* here is the one of src/js/ai.js.  That class has no performanceTracker  *)
(* member and no updateLearningRate method (only the replay variant in     *)
(* src/unnamed/part_001 lines 1-224 has them), so the driver's accesses    *)
(* ai.performanceTracker.addResult (index.html:245) and                    *)
(* ai.performanceTracker.getAveragePerformance (index.html:463) raise a    *)
(* TypeError that ends the running handler at that statement.  The         *)
(* handlers are modelled up to the statement that throws.                  *)
(*                                                                         *)
(* Numbers are exact rationals <<n, d>> (d > 0, lowest terms); a JS number *)
(* is modelled by the real it denotes.                                     *)
(***************************************************************************)
EXTENDS Integers, Sequences, FiniteSets, TLC

\* ---------------------------------------------------------------- bounds
\* MAZE_SIZE is 31 in the source (index.html:114); the model checks the
\* smallest maze the generator accepts.
MAZE_SIZE == 5
\* Most moves one mouse makes between two resets (mouse.steps has no cap).
MaxSteps == 4
\* Most learning steps the driver runs on one agent object.
MaxTrain == 1
\* Most learn calls one agent object receives in the agent-level specification.
MaxLearn == 2
\* Most completed runs counted in one session.
MaxRuns == 1
\* Most decayExploration calls on one agent in the agent-level specification
\* and in one session of the driver with the replay agent.
MaxDecay == 2
\* Most learning iterations of one replay agent that leave the mouse short of
\* the goal (the iterations that complete a run are counted by MaxEpisodes).
MaxWander == 0
\* Most moves one mouse makes between two resets under the replay driver.
MaxMoves == 6
\* Most completed runs counted in one session of the replay driver.
MaxEpisodes == 3

\* Program constants the model takes smaller than the source does, so that
\* every branch that depends on them is reached within the bounds above:
\* LEARNING_STEPS_PER_FRAME 10 (index.html:117), MAX_SCOREBOARD_ENTRIES 10
\* (index.html:119), sample's batchSize 32 (part_001:240), the 10 runs of the
\* convergence window and the 5 runs of the optimal-path test
\* (part_000:128-139).
LEARNING_STEPS_PER_FRAME == 1
MAX_SCOREBOARD_ENTRIES == 2
batchSize == 1
ConvergenceRuns == 3
OptimalRuns == 2
\* ExperienceBuffer's maxSize and PerformanceTracker's windowSize
maxSize == 10000
windowSize == 100

\* ------------------------------------------------------------- rationals
RECURSIVE GCD(_, _)
GCD(a, b) == IF b = 0 THEN a ELSE GCD(b, a % b)

Abs(n) == IF n < 0 THEN -n ELSE n

\* n/d in lowest terms with a positive denominator
Rat(n, d) ==
    LET s == IF d < 0 THEN -1 ELSE 1
        g == GCD(Abs(n), Abs(d))
    IN  <<(s * n) \div g, (s * d) \div g>>

R(n) == <<n, 1>>
\* the least common denominator keeps the intermediate products small
LCD(p, q) == (p[2] \div GCD(p[2], q[2])) * q[2]
OnLCD(p, q) == p[1] * (LCD(p, q) \div p[2])
RAdd(p, q) == Rat(OnLCD(p, q) + OnLCD(q, p), LCD(p, q))
RSub(p, q) == Rat(OnLCD(p, q) - OnLCD(q, p), LCD(p, q))
RMul(p, q) ==
    LET g1 == GCD(Abs(p[1]), q[2])
        g2 == GCD(Abs(q[1]), p[2])
    IN  Rat((p[1] \div g1) * (q[1] \div g2), (p[2] \div g2) * (q[2] \div g1))
RLt(p, q) == OnLCD(p, q) < OnLCD(q, p)
RLe(p, q) == OnLCD(p, q) <= OnLCD(q, p)
RMax(p, q) == IF RLt(p, q) THEN q ELSE p
RMin(p, q) == IF RLt(q, p) THEN q ELSE p

\* Math.max(...values) over a non-empty array
RECURSIVE MathMax(_)
MathMax(values) ==
    IF Len(values) = 1 THEN values[1]
    ELSE RMax(values[1], MathMax(Tail(values)))

\* Math.max(lo, Math.min(hi, v)): the constructor's clamp; Math.min and
\* Math.max give NaN for a NaN argument
Clamp(lo, hi, v) ==
    IF v[2] > 0 THEN RMax(lo, RMin(hi, v))
    ELSE IF v[1] = 0 THEN <<0, 0>>
    ELSE IF v[1] > 0 THEN hi ELSE lo

\* A JavaScript number is a rational, or one of NaN, Infinity, -Infinity
\* (denominator 0); Undefined is what reading a missing array element gives.
NaN == <<0, 0>>
Infinity == <<1, 0>>
Undefined == <<0, -1>>
IsFinite(q) == q[2] > 0
IsNaN(q) == q = NaN \/ q = Undefined
Sign(q) == IF q[1] > 0 THEN 1 ELSE IF q[1] < 0 THEN -1 ELSE 0

\* p + q, p - q and p * q of IEEE arithmetic (undefined converts to NaN)
XNeg(q) == IF IsNaN(q) THEN NaN ELSE <<-q[1], q[2]>>
XAdd(p, q) ==
    IF IsFinite(p) /\ IsFinite(q) THEN RAdd(p, q)
    ELSE IF IsNaN(p) \/ IsNaN(q) THEN NaN
    ELSE IF IsFinite(p) THEN q
    ELSE IF IsFinite(q) \/ p = q THEN p
    ELSE NaN
XSub(p, q) == IF IsFinite(p) /\ IsFinite(q) THEN RSub(p, q) ELSE XAdd(p, XNeg(q))
XMul(p, q) ==
    IF IsFinite(p) /\ IsFinite(q) THEN RMul(p, q)
    ELSE IF IsNaN(p) \/ IsNaN(q) \/ Sign(p) * Sign(q) = 0 THEN NaN
    ELSE <<Sign(p) * Sign(q), 0>>

\* Math.max(...values): NaN when an element is NaN or undefined, -Infinity
\* for the empty array
RECURSIVE XMathMax(_)
XMathMax(values) ==
    IF \A i \in DOMAIN values : IsFinite(values[i])
    THEN (IF Len(values) = 0 THEN XNeg(Infinity) ELSE MathMax(values))
    ELSE IF \E i \in DOMAIN values : IsNaN(values[i]) THEN NaN
    ELSE IF \E i \in DOMAIN values : values[i] = Infinity THEN Infinity
    ELSE XMathMax(SelectSeq(values, IsFinite))

\* array[index] for a 0-based index: undefined past the end
ReadIndex(array, index) ==
    IF index + 1 \in DOMAIN array THEN array[index + 1] ELSE Undefined

\* array[index] = value for a 0-based index at or past 0: writing past the
\* end leaves holes, which read as undefined
WriteIndex(array, index, value) ==
    IF index + 1 \in DOMAIN array THEN [array EXCEPT ![index + 1] = value]
    ELSE array \o [i \in 1 .. index - Len(array) |-> Undefined] \o <<value>>

\* ------------------------------------------------------------------ maze
\* generateNewMaze: an even MAZE_SIZE is made odd
mazeWidth == IF MAZE_SIZE % 2 = 0 THEN MAZE_SIZE + 1 ELSE MAZE_SIZE
mazeHeight == IF MAZE_SIZE % 2 = 0 THEN MAZE_SIZE + 1 ELSE MAZE_SIZE

Xs == 0 .. (mazeWidth - 1)
Ys == 0 .. (mazeHeight - 1)

\* Maze constructor: start and end
mazeStart == [x |-> 1, y |-> 1]
mazeEnd == [x |-> mazeWidth - 2, y |-> mazeHeight - 2]

\* grid[y][x]: 1 wall, 0 path; this.width and this.height of the maze a grid
\* belongs to
Width(g) == Cardinality(DOMAIN g[0])
Height(g) == Cardinality(DOMAIN g)

\* this.end = { x: width - 2, y: height - 2 }
GoalOf(g) == <<Width(g) - 2, Height(g) - 2>>

\* generate(): the grid filled with walls
RECURSIVE Fill(_, _)
Fill(last, v) == IF last = 0 THEN (0 :> v) ELSE Fill(last - 1, v) @@ (last :> v)
AllWallsFor(width, height) == Fill(height - 1, Fill(width - 1, 1))
AllWalls == AllWallsFor(mazeWidth, mazeHeight)
SetCell(g, x, y, v) == [g EXCEPT ![y] = [@ EXCEPT ![x] = v]]

\* carvePath's directions array before the shuffle: (up, right, down, left)
directions == <<<<0, -2>>, <<2, 0>>, <<0, 2>>, <<-2, 0>>>>

\* every order the Fisher-Yates shuffle of carvePath can leave
Shuffles == {p \in [1 .. 4 -> 1 .. 4] : \A i, j \in 1 .. 4 : p[i] = p[j] => i = j}

\* carvePath(x, y) on grid g: the set of grids it can leave, over every shuffle.
\* A direction whose target is outside the interior or already carved when
\* carvePath is entered is skipped by the loop wherever the shuffle puts it
\* (a carved cell never becomes a wall again), so the shuffles are taken up to
\* the order they leave among the other directions.
Candidates(g, x, y) ==
    { k \in 1 .. 4 :
        LET newX == x + directions[k][1]
            newY == y + directions[k][2]
        IN  newX > 0 /\ newX < Width(g) - 1 /\ newY > 0 /\ newY < Height(g) - 1
            /\ g[newY][newX] = 1 }

Orders(c) == { SelectSeq([i \in 1 .. 4 |-> p[i]], LAMBDA k : k \in c) : p \in Shuffles }

RECURSIVE carvePath(_, _, _)
RECURSIVE CarveLoop(_, _, _, _, _)
\* a loop that opens the passage towards a cell carved in the meantime
CarveLoopOpensBack(gs, x, y, order, i) ==
    IF i > Len(order) THEN gs
    ELSE LET dx == directions[order[i]][1]
             dy == directions[order[i]][2]
             newX == x + dx
             newY == y + dy
             next == UNION { IF g[newY][newX] = 1
                             THEN carvePath(SetCell(g, x + dx \div 2, y + dy \div 2, 0),
                                            newX, newY)
                             ELSE {SetCell(g, x + dx \div 2, y + dy \div 2, 0)} : g \in gs }
         IN  CarveLoop(next, x, y, order, i + 1)

CarveLoop(gs, x, y, order, i) ==
    IF i > Len(order) THEN gs
    ELSE LET dx == directions[order[i]][1]
             dy == directions[order[i]][2]
             newX == x + dx
             newY == y + dy
             next == UNION { IF newX > 0 /\ newX < Width(g) - 1
                                /\ newY > 0 /\ newY < Height(g) - 1
                                /\ g[newY][newX] = 1
                             THEN carvePath(SetCell(g, x + dx \div 2, y + dy \div 2, 0),
                                            newX, newY)
                             ELSE {g} : g \in gs }
         IN  CarveLoop(next, x, y, order, i + 1)

carvePath(g, x, y) ==
    LET g0 == SetCell(g, x, y, 0)
    IN  UNION { CarveLoop({g0}, x, y, order, 1) : order \in Orders(Candidates(g0, x, y)) }

\* a generate() that clears start and end without carving
generateForNoCarve(width, height) ==
    { SetCell(SetCell(AllWallsFor(width, height), 1, 1, 0), width - 2, height - 2, 0) }

\* a generate() whose end cell is the grid's last cell
generateForEndOnBorder(width, height) ==
    { SetCell(SetCell(g, 1, 1, 0), width - 1, height - 1, 0) :
        g \in carvePath(AllWallsFor(width, height), 1, 1) }

\* generate(): all walls, carve from start, clear start and end
generateFor(width, height) ==
    { SetCell(SetCell(g, 1, 1, 0), width - 2, height - 2, 0) :
        g \in carvePath(AllWallsFor(width, height), 1, 1) }

\* the mazes of the driver's size
generate == generateFor(mazeWidth, mazeHeight)

\* isWall(x, y) is grid[y][x] === 1.  For y outside the grid, grid[y] is
\* undefined and reading [x] of it throws a TypeError
isWallThrows(g, x, y) == y \notin DOMAIN g

\* the value isWall(x, y) returns when it does not throw: for x outside the
\* row, grid[y][x] is undefined, which is not 1
isWall(g, x, y) == y \in DOMAIN g /\ x \in DOMAIN g[y] /\ g[y][x] = 1

\* a position test that forgets the wall test
isValidPositionBoundsOnly(g, x, y) == x \in Xs /\ y \in Ys

isValidPosition(g, x, y) ==
    x >= 0 /\ x < Width(g) /\ y >= 0 /\ y < Height(g) /\ g[y][x] = 0

\* ----------------------------------------------------------------- mouse
\* `${x},${y}`: the key of a cell in mouse.visited
posKey(x, y) == ToString(x) \o "," \o ToString(y)

\* Mouse constructor: visited and path start empty
Mouse(x, y) ==
    [x |-> x, y |-> y, direction |-> 0, visited |-> {}, path |-> <<>>,
     steps |-> 0, lastMove |-> [dx |-> 0, dy |-> 0]]

\* a reset that keeps the visited set of the episode before
MouseResetKeepsVisited(m, x, y) ==
    [x |-> x, y |-> y, direction |-> 0, visited |-> m.visited \cup {posKey(x, y)},
     path |-> <<[x |-> x, y |-> y]>>, steps |-> 0, lastMove |-> [dx |-> 0, dy |-> 0]]

\* Mouse.reset(x, y)
MouseReset(m, x, y) ==
    [x |-> x, y |-> y, direction |-> 0, visited |-> {posKey(x, y)},
     path |-> <<[x |-> x, y |-> y]>>, steps |-> 0, lastMove |-> [dx |-> 0, dy |-> 0]]

DX(direction) == <<1, 0, -1, 0>>[direction + 1]
DY(direction) == <<0, 1, 0, -1>>[direction + 1]

\* Mouse.getNextPosition(direction)
getNextPosition(m, direction) == [x |-> m.x + DX(direction), y |-> m.y + DY(direction)]

\* a move that tests the bounds only
moveThroughWalls(g, m, direction) ==
    LET newX == m.x + DX(direction)
        newY == m.y + DY(direction)
    IN  IF newX >= 0 /\ newX < Width(g) /\ newY >= 0 /\ newY < Height(g)
        THEN [m EXCEPT !.lastMove = [dx |-> m.x, dy |-> m.y],
                       !.x = newX, !.y = newY, !.direction = direction,
                       !.visited = @ \cup {posKey(newX, newY)},
                       !.path = Append(@, [x |-> newX, y |-> newY]),
                       !.steps = @ + 1]
        ELSE m

\* Mouse.move(direction): what the call returns
moveReturns(g, m, direction) == isValidPosition(g, m.x + DX(direction), m.y + DY(direction))

\* Mouse.move(direction): the mouse after the call (unchanged when the target
\* is not a valid position)
move(g, m, direction) ==
    LET newX == m.x + DX(direction)
        newY == m.y + DY(direction)
    IN  IF isValidPosition(g, newX, newY)
        THEN [m EXCEPT !.lastMove = [dx |-> m.x, dy |-> m.y],
                       !.x = newX, !.y = newY, !.direction = direction,
                       !.visited = @ \cup {posKey(newX, newY)},
                       !.path = Append(@, [x |-> newX, y |-> newY]),
                       !.steps = @ + 1]
        ELSE m

\* Mouse.isAtEnd()
isAtEnd(m) == m.x = mazeEnd.x /\ m.y = mazeEnd.y

\* ----------------------------------------------------------------- agent
Actions == 0 .. 3
Zeros == <<R(0), R(0), R(0), R(0)>>

\* QLearningAgent constructor: every hyperparameter is clamped
QLearningAgent(learningRate, discountFactor, explorationRate, explorationDecay, minExplorationRate) ==
    [learningRate |-> Clamp(R(0), R(1), learningRate),
     discountFactor |-> Clamp(R(0), R(1), discountFactor),
     explorationRate |-> Clamp(R(0), R(1), explorationRate),
     explorationDecay |-> Clamp(Rat(9, 10), R(1), explorationDecay),
     minExplorationRate |-> Clamp(R(0), Rat(1, 5), minExplorationRate),
     qTable |-> <<>>,
     stateActionCounts |-> <<>>]

\* m :> v without the TLC operators' precedence: the map f with key k set to v
MapSet(f, k, v) == [j \in DOMAIN f \cup {k} |-> IF j = k THEN v ELSE f[j]]

\* a lazy initialisation that fills a new row with ones
LazyInitOnes(qTable, state) ==
    IF state \in DOMAIN qTable THEN qTable
    ELSE MapSet(qTable, state, <<R(1), R(1), R(1), R(1)>>)

\* if (!this.qTable.has(state)) this.qTable.set(state, new Array(4).fill(0))
LazyInit(qTable, state) ==
    IF state \in DOMAIN qTable THEN qTable ELSE MapSet(qTable, state, Zeros)

\* a state key without the flag of the cell above
getRelativeStateThreeWalls(g, m) ==
    LET cells == <<<<m.x + 1, m.y>>, <<m.x, m.y + 1>>, <<m.x - 1, m.y>>>>
        bit(k) == IF isWall(g, cells[k][1], cells[k][2]) THEN "1" ELSE "0"
    IN  ToString(GoalOf(g)[1] - m.x) \o "," \o ToString(GoalOf(g)[2] - m.y) \o ","
        \o bit(1) \o bit(2) \o bit(3)

\* getRelativeState(mouse): the offset to mouse.maze.end and the four wall
\* flags (right, down, left, up); 'error_state' when a wall test throws
getRelativeState(g, m) ==
    LET cells == <<<<m.x + 1, m.y>>, <<m.x, m.y + 1>>, <<m.x - 1, m.y>>, <<m.x, m.y - 1>>>>
        bit(k) == IF isWall(g, cells[k][1], cells[k][2]) THEN "1" ELSE "0"
        end == GoalOf(g)
    IN  IF \E k \in 1 .. 4 : isWallThrows(g, cells[k][1], cells[k][2]) THEN "error_state"
        ELSE ToString(end[1] - m.x) \o "," \o ToString(end[2] - m.y) \o ","
             \o bit(1) \o bit(2) \o bit(3) \o bit(4)

\* a tie-break that keeps only the lowest-indexed maximum
bestActionsFirst(qValues) ==
    LET maxQ == MathMax(qValues)
        all == SelectSeq(<<0, 1, 2, 3>>, LAMBDA index : qValues[index + 1] = maxQ)
    IN  <<all[1]>>

\* qValues.map((value, index) => value === maxQ ? index : null).filter(...)
bestActions(qValues) ==
    LET maxQ == MathMax(qValues)
    IN  SelectSeq(<<0, 1, 2, 3>>, LAMBDA index : qValues[index + 1] = maxQ)

\* getAction(state): every outcome of the call.  Math.random() lies in [0, 1),
\* so the exploration branch can be taken iff explorationRate > 0 and the
\* exploitation branch iff explorationRate < 1.
getAction(agent, state) ==
    LET explore == IF RLt(R(0), agent.explorationRate)
                   THEN { [action |-> a, explored |-> TRUE, best |-> <<>>, agent |-> agent] :
                            a \in Actions }
                   ELSE {}
        table == LazyInit(agent.qTable, state)
        best == bestActions(table[state])
        exploit == IF RLt(agent.explorationRate, R(1))
                   THEN { [action |-> best[i], explored |-> FALSE, best |-> best,
                           agent |-> [agent EXCEPT !.qTable = table]] :
                            i \in 1 .. Len(best) }
                   ELSE {}
    IN  explore \cup exploit

\* a learn that reads max Q(nextState) after writing Q(state, action)
learnWriteFirst(agent, state, action, reward, nextState) ==
    LET t1 == LazyInit(LazyInit(agent.qTable, state), nextState)
        stateActionKey == state \o ":" \o ToString(action)
        counts == MapSet(agent.stateActionCounts, stateActionKey,
                         (IF stateActionKey \in DOMAIN agent.stateActionCounts
                          THEN agent.stateActionCounts[stateActionKey] ELSE 0) + 1)
        currentQ == t1[state][action + 1]
        first == RAdd(currentQ, RMul(agent.learningRate, RSub(reward, currentQ)))
        t2 == [t1 EXCEPT ![state] = [@ EXCEPT ![action + 1] = first]]
        newQ == RAdd(first, RMul(agent.learningRate,
                                 RMul(agent.discountFactor, MathMax(t2[nextState]))))
    IN  [agent EXCEPT !.qTable = [t1 EXCEPT ![state] = [@ EXCEPT ![action + 1] = newQ]],
                      !.stateActionCounts = counts]

\* learn(state, action, reward, nextState)
learn(agent, state, action, reward, nextState) ==
    LET t1 == LazyInit(LazyInit(agent.qTable, state), nextState)
        stateActionKey == state \o ":" \o ToString(action)
        counts == MapSet(agent.stateActionCounts, stateActionKey,
                         (IF stateActionKey \in DOMAIN agent.stateActionCounts
                          THEN agent.stateActionCounts[stateActionKey] ELSE 0) + 1)
        currentQ == ReadIndex(t1[state], action)
        maxNextQ == XMathMax(t1[nextState])
        newQ == XAdd(currentQ,
                     XMul(agent.learningRate,
                          XSub(XAdd(reward, XMul(agent.discountFactor, maxNextQ)), currentQ)))
    IN  [agent EXCEPT !.qTable = [t1 EXCEPT ![state] = WriteIndex(@, action, newQ)],
                      !.stateActionCounts = counts]

Dist(x, y) == Abs(x - mazeEnd.x) + Abs(y - mazeEnd.y)

\* a reward that forgets the wall penalty
getRewardNoWall(m, action, wasValidMove) ==
    IF isAtEnd(m) THEN R(100) ELSE Rat(-1, 10)

\* getReward(mouse, action, wasValidMove), evaluated on the mouse as it is
\* when the caller passes it.  mouse.visited is a Set, so the filter that
\* counts the entries equal to posKey finds exactly one.
getReward(m, action, wasValidMove) ==
    IF ~wasValidMove THEN R(-10)
    ELSE IF isAtEnd(m) THEN R(100)
    ELSE LET currentDist == Dist(m.x, m.y)
             prevDist == Dist(m.lastMove.dx, m.lastMove.dy)
             base == Rat(-1, 10)
             shaped == IF currentDist < prevDist THEN RAdd(base, R(2))
                       ELSE IF currentDist > prevDist THEN RSub(base, R(1))
                       ELSE base
             visitCount == Cardinality({pos \in m.visited : pos = posKey(m.x, m.y)})
         IN  IF posKey(m.x, m.y) \in m.visited
             THEN RSub(shaped, RMin(R(5), R(visitCount)))
             ELSE shaped

\* decayExploration()
decayExploration(agent) ==
    [agent EXCEPT !.explorationRate =
        RMax(agent.minExplorationRate, RMul(agent.explorationRate, agent.explorationDecay))]

\* reset(): both maps cleared, the exploration rate set to the literal 0.8
reset(agent) ==
    [agent EXCEPT !.qTable = <<>>, !.stateActionCounts = <<>>, !.explorationRate = Rat(4, 5)]

\* --------------------------------------------------------------- storage
\* What localStorage holds under the key, as JSON.parse and new Map see it:
\*   "absent"  getItem returns null
\*   "empty"   the empty string
\*   "invalid" text that JSON.parse rejects
\*   "null"    the JSON text null
\*   "scalar"  a JSON number, boolean or object: not iterable
\*   "array"   a JSON array; an item is an entry [key, values] or a non-object
\* A number is written as its decimal text <<mantissa, digits after the point>>.
NothingStored == [kind |-> "absent", items |-> <<>>]

RECURSIVE Pow10(_)
Pow10(k) == IF k = 0 THEN 1 ELSE 10 * Pow10(k - 1)

\* the digits after the decimal point that the decimal text of q needs
RECURSIVE DecimalDigits(_, _)
DecimalDigits(q, k) == IF Pow10(k) % q[2] = 0 THEN k ELSE DecimalDigits(q, k + 1)

\* a number written with one digit after the decimal point
NumberToJsonOneDigit(q) == <<(q[1] * 10) \div q[2], 1>>

\* JSON.stringify of a finite number, and JSON.parse of that text
NumberToJson(q) ==
    LET k == DecimalDigits(q, 0)
    IN  <<q[1] * (Pow10(k) \div q[2]), k>>
JsonToNumber(j) == Rat(j[1], Pow10(j[2]))

\* Array.from(this.qTable.entries()) through JSON.stringify
RECURSIVE EntriesToJson(_, _)
EntriesToJson(qTable, keys) ==
    IF keys = {} THEN <<>>
    ELSE LET key == CHOOSE k \in keys : TRUE
         IN  <<[isEntry |-> TRUE, key |-> key,
                values |-> [i \in 1 .. 4 |-> NumberToJson(qTable[key][i])]]>>
             \o EntriesToJson(qTable, keys \ {key})

\* new Map(entries) on a parsed array whose items are all entries: the value
\* of an entry is installed as it is, whatever its length
RECURSIVE MapOfEntries(_)
MapOfEntries(items) ==
    IF items = <<>> THEN <<>>
    ELSE LET last == items[Len(items)]
         IN  MapSet(MapOfEntries(SubSeq(items, 1, Len(items) - 1)), last.key,
                    [i \in 1 .. Len(last.values) |-> JsonToNumber(last.values[i])])

\* saveQTable(key): canWrite is false when localStorage.setItem throws.
\* The result and the stored content after the call.
saveQTable(agent, stored, canWrite) ==
    IF canWrite
    THEN [ok |-> TRUE,
          stored |-> [kind |-> "array",
                      items |-> EntriesToJson(agent.qTable, DOMAIN agent.qTable)]]
    ELSE [ok |-> FALSE, stored |-> stored]

\* whether JSON.parse(saved) or new Map(entries) throws on the stored content
LoadThrows(stored) ==
    \/ stored.kind \in {"invalid", "scalar"}
    \/ stored.kind = "array" /\ \E i \in DOMAIN stored.items : ~stored.items[i].isEntry

\* a load that empties the table before it parses
loadClearsFirst(agent, stored, canRead) ==
    IF ~canRead \/ LoadThrows(stored) THEN [ok |-> FALSE, agent |-> [agent EXCEPT !.qTable = <<>>]]
    ELSE IF stored.kind \in {"absent", "empty"} THEN [ok |-> FALSE, agent |-> agent]
    ELSE [ok |-> TRUE, agent |-> [agent EXCEPT !.qTable = MapOfEntries(stored.items)]]

\* loadQTableFromStorage(key): canRead is false when localStorage.getItem
\* throws.  The result and the agent after the call.
loadQTableFromStorage(agent, stored, canRead) ==
    IF ~canRead THEN [ok |-> FALSE, agent |-> agent]
    ELSE IF stored.kind \in {"absent", "empty"} THEN [ok |-> FALSE, agent |-> agent]
    ELSE IF LoadThrows(stored) THEN [ok |-> FALSE, agent |-> agent]
    ELSE [ok |-> TRUE, agent |-> [agent EXCEPT !.qTable = MapOfEntries(stored.items)]]

\* loadQTable(qTable): the argument is a Map or not; an entry of a Map holds
\* an array or something else, which is replaced by four zeros
RECURSIVE CopyOfEntries(_)
CopyOfEntries(entries) ==
    IF entries = <<>> THEN <<>>
    ELSE LET last == entries[Len(entries)]
         IN  MapSet(CopyOfEntries(SubSeq(entries, 1, Len(entries) - 1)), last.key,
                    IF last.isArray THEN last.value ELSE Zeros)

loadQTable(agent, argument) ==
    IF argument.isMap THEN [agent EXCEPT !.qTable = CopyOfEntries(argument.entries)]
    ELSE agent

\* ---------------------------------------------------------------- driver
VARIABLES
    grid,               \* maze.grid
    mouse,              \* the Mouse object
    ai,                 \* the QLearningAgent object
    step,               \* the locals of the session's last learning step or agent call
    isPlayMode,
    isPaused,
    animationInterval,  \* "null", "pending" (its callback is queued) or "fired"
    generation,
    successfulRuns,
    totalSteps,
    bestTime,           \* <<>> for Infinity, <<n>> for n
    successfulRunsData,
    analytics,          \* MazeAnalytics.metrics: episodeData and convergenceMetrics
    decayCalls,         \* decayExploration calls received by the agent object
    localStorage,       \* what window.localStorage holds under 'micromouse_qtable'
    timeouts,           \* the number of queued setTimeout callbacks that resume training
    frames,             \* the ids of the queued requestAnimationFrame(gameLoop) callbacks
    overlay             \* whether the celebration overlay is in the document

vars == <<grid, mouse, ai, step, isPlayMode, isPaused, animationInterval, generation,
          successfulRuns, totalSteps, bestTime, successfulRunsData, analytics, decayCalls,
          localStorage, timeouts, frames, overlay>>

\* what the browser holds for the page besides the frame handle
callbacks == <<timeouts, frames, overlay>>

NoStep ==
    [op |-> "none", state |-> "", action |-> 0, reward |-> R(0), nextState |-> "",
     valid |-> FALSE, from |-> mazeStart, to |-> mazeStart, seen |-> {},
     explored |-> FALSE, best |-> <<>>, result |-> "", threw |-> FALSE, arguments |-> <<>>]

\* the number of learn calls the agent object has received
RECURSIVE SumOver(_, _)
SumOver(f, keys) ==
    IF keys = {} THEN 0
    ELSE LET k == CHOOSE k \in keys : TRUE IN f[k] + SumOver(f, keys \ {k})

TotalLearn(agent) == SumOver(agent.stateActionCounts, DOMAIN agent.stateActionCounts)

\* new MazeAnalytics()
MazeAnalytics ==
    [episodeData |-> <<>>, lastTenRunsAvg |-> <<>>, isConverged |-> FALSE,
     mazeSolved |-> FALSE]

\* stopAnimation(): cancels the queued callback and clears the handle
stopAnimation(handle) == "null"

\* generateNewMaze(), up to updateMetrics() (index.html:178), which throws
generateNewMaze ==
    /\ animationInterval' = stopAnimation(animationInterval)
    /\ isPlayMode' = FALSE
    /\ grid' \in generate
    /\ ai' = QLearningAgent(Rat(1, 5), Rat(19, 20), R(1), Rat(995, 1000), Rat(1, 100))
    /\ mouse' = Mouse(mazeStart.x, mazeStart.y)
    /\ analytics' = MazeAnalytics
    /\ generation' = 0
    /\ successfulRuns' = 0
    /\ totalSteps' = 0
    /\ bestTime' = <<>>
    /\ successfulRunsData' = <<>>
    /\ decayCalls' = 0
    /\ UNCHANGED localStorage
    /\ step' = NoStep
    /\ UNCHANGED isPaused
    /\ UNCHANGED callbacks

\* the page load: preloadAssets() ends in generateNewMaze()
Init ==
    /\ grid \in generate
    /\ ai = QLearningAgent(Rat(1, 5), Rat(19, 20), R(1), Rat(995, 1000), Rat(1, 100))
    /\ mouse = Mouse(mazeStart.x, mazeStart.y)
    /\ analytics = MazeAnalytics
    /\ step = NoStep
    /\ isPlayMode = FALSE
    /\ isPaused = FALSE
    /\ animationInterval = "null"
    /\ generation = 0
    /\ successfulRuns = 0
    /\ totalSteps = 0
    /\ bestTime = <<>>
    /\ successfulRunsData = <<>>
    /\ decayCalls = 0
    /\ localStorage = NothingStored
    /\ timeouts = 0
    /\ frames = {}
    /\ overlay = FALSE

\* startLearning()
startLearning ==
    /\ ~isPaused
    /\ isPlayMode' = FALSE
    /\ animationInterval' = "pending"
    /\ UNCHANGED <<grid, mouse, ai, step, isPaused, generation, successfulRuns, totalSteps,
                   bestTime, successfulRunsData, analytics, decayCalls, localStorage>>
    /\ UNCHANGED callbacks

\* One iteration of gameLoop's for loop, for one outcome `choice` of getAction:
\* the record of the iteration's locals, the mouse and the agent after it.
LearningStep(g, m, agent, choice) ==
    LET currentState == getRelativeState(g, m)
        action == choice.action
        nextPosition == getNextPosition(m, action)
        wouldBeValid == isValidPosition(g, nextPosition.x, nextPosition.y)
        reward == getReward(m, action, wouldBeValid)
        moved == IF wouldBeValid THEN move(g, m, action) ELSE m
        nextState == IF wouldBeValid THEN getRelativeState(g, moved) ELSE currentState
    IN  [mouse |-> moved,
         agent |-> learn(choice.agent, currentState, action, reward, nextState),
         locals |-> [op |-> "train", state |-> currentState, action |-> action,
                     reward |-> reward, nextState |-> nextState, valid |-> wouldBeValid,
                     from |-> [x |-> m.x, y |-> m.y], to |-> [x |-> moved.x, y |-> moved.y],
                     seen |-> m.visited, explored |-> choice.explored, best |-> choice.best,
                     result |-> "", threw |-> FALSE, arguments |-> <<>>]]

\* gameLoop(timestamp): the queued animation-frame callback runs.  The first
\* iteration ends at ai.performanceTracker.addResult (index.html:245), which
\* throws: no later iteration runs, the goal test of line 254 is not reached
\* and no further frame is requested.
gameLoop ==
    /\ animationInterval = "pending"
    /\ animationInterval' = "fired"
    /\ IF isPaused \/ isPlayMode
       THEN UNCHANGED <<mouse, ai, step>>
       ELSE /\ TotalLearn(ai) < MaxTrain
            /\ \E choice \in getAction(ai, getRelativeState(grid, mouse)) :
                 LET r == LearningStep(grid, mouse, ai, choice)
                 IN  /\ r.mouse.steps <= MaxSteps
                     /\ mouse' = r.mouse
                     /\ ai' = r.agent
                     /\ step' = r.locals
    /\ UNCHANGED <<grid, isPlayMode, isPaused, generation, successfulRuns, totalSteps,
                   bestTime, successfulRunsData, analytics, decayCalls, localStorage>>
    /\ UNCHANGED callbacks

\* a Reset that starts a new agent
resetMouseAndAIFresh ==
    /\ animationInterval' = stopAnimation(animationInterval)
    /\ isPlayMode' = FALSE
    /\ ai' = QLearningAgent(Rat(1, 5), Rat(19, 20), R(1), Rat(995, 1000), Rat(1, 10))
    /\ mouse' = MouseReset(mouse, mazeStart.x, mazeStart.y)
    /\ UNCHANGED <<grid, step, isPaused, generation, successfulRuns, totalSteps, bestTime,
                   successfulRunsData, analytics, decayCalls, localStorage>>
    /\ UNCHANGED callbacks

\* resetMouseAndAI(loadBestAI) as the Reset button calls it (loadBestAI = true)
resetMouseAndAI ==
    /\ animationInterval' = stopAnimation(animationInterval)
    /\ isPlayMode' = FALSE
    /\ ai' = IF Len(successfulRunsData) > 0
             THEN [ai EXCEPT !.qTable = successfulRunsData[1].qTable]
             ELSE ai
    /\ mouse' = MouseReset(mouse, mazeStart.x, mazeStart.y)
    /\ UNCHANGED <<grid, step, isPaused, generation, successfulRuns, totalSteps, bestTime,
                   successfulRunsData, analytics, decayCalls, localStorage>>
    /\ UNCHANGED callbacks

\* the Play Mode button
playMode ==
    /\ animationInterval' = stopAnimation(animationInterval)
    /\ isPlayMode' = TRUE
    /\ mouse' = MouseReset(mouse, mazeStart.x, mazeStart.y)
    /\ UNCHANGED <<grid, ai, step, isPaused, generation, successfulRuns, totalSteps, bestTime,
                   successfulRunsData, analytics, decayCalls, localStorage>>
    /\ UNCHANGED callbacks

\* MazeAnalytics.recordEpisode with updateConvergenceMetrics: the window of
\* the last ConvergenceRuns runs, every one within 5% of their average, and
\* the last OptimalRuns of them with the same number of steps
recordEpisode(a, m, gen, steps) ==
    LET pushed == Append(a.lastTenRunsAvg, steps)
        lastTen == IF Len(pushed) > ConvergenceRuns THEN Tail(pushed) ELSE pushed
        sum == SumOver(lastTen, DOMAIN lastTen)
        allWithinRange == \A i \in DOMAIN lastTen : Abs(ConvergenceRuns * lastTen[i] - sum) * 20 < sum
        firstOfLast == ConvergenceRuns - OptimalRuns + 1
        hasOptimalPath == \A i \in firstOfLast .. Len(lastTen) : lastTen[i] = lastTen[firstOfLast]
    IN  [episodeData |-> Append(a.episodeData, [generation |-> gen, steps |-> steps]),
         lastTenRunsAvg |-> lastTen,
         isConverged |-> a.isConverged \/ (Len(lastTen) = ConvergenceRuns /\ allWithinRange),
         mazeSolved |-> a.mazeSolved \/ (Len(lastTen) = ConvergenceRuns /\ hasOptimalPath)]

\* the keydown handler for an arrow key, with handleSuccessfulRun() up to
\* updateMetrics() (index.html:292), which throws before the run is added to
\* the pause, the timer or (play mode) the leaderboard
keydown(action) ==
    /\ isPlayMode /\ ~isPaused
    /\ LET nextPosition == getNextPosition(mouse, action)
           moved == move(grid, mouse, action)
       IN  /\ isValidPosition(grid, nextPosition.x, nextPosition.y)
           /\ moved.steps <= MaxSteps
           /\ mouse' = moved
           /\ IF isAtEnd(moved)
              THEN /\ successfulRuns < MaxRuns
                   /\ successfulRuns' = successfulRuns + 1
                   /\ totalSteps' = totalSteps + moved.steps
                   /\ bestTime' = IF bestTime = <<>> \/ moved.steps < bestTime[1]
                                  THEN <<moved.steps>> ELSE bestTime
                   /\ analytics' = recordEpisode(analytics, moved, generation, moved.steps)
              ELSE UNCHANGED <<successfulRuns, totalSteps, bestTime, analytics>>
    /\ UNCHANGED <<grid, ai, step, isPlayMode, isPaused, animationInterval, generation,
                   successfulRunsData, decayCalls, localStorage>>
    /\ UNCHANGED callbacks

Next ==
    \/ startLearning
    \/ gameLoop
    \/ resetMouseAndAI
    \/ generateNewMaze
    \/ playMode
    \/ \E action \in Actions : keydown(action)

Spec == Init /\ [][Next]_vars

\* the Save button: ai.saveQTable(); the button's visual feedback is not state
saveBtn ==
    /\ \E canWrite \in BOOLEAN : localStorage' = saveQTable(ai, localStorage, canWrite).stored
    /\ UNCHANGED <<grid, mouse, ai, step, isPlayMode, isPaused, animationInterval, generation,
                   successfulRuns, totalSteps, bestTime, successfulRunsData, analytics,
                   decayCalls>>
    /\ UNCHANGED callbacks

\* the Load button: ai.loadQTableFromStorage() and, when it returns true,
\* resetMouseAndAI(false)
loadBtn ==
    /\ \E canRead \in BOOLEAN :
         LET r == loadQTableFromStorage(ai, localStorage, canRead)
         IN  IF r.ok
             THEN /\ ai' = r.agent
                  /\ animationInterval' = stopAnimation(animationInterval)
                  /\ isPlayMode' = FALSE
                  /\ mouse' = MouseReset(mouse, mazeStart.x, mazeStart.y)
             ELSE UNCHANGED <<ai, animationInterval, isPlayMode, mouse>>
    /\ UNCHANGED <<grid, step, isPaused, generation, successfulRuns, totalSteps, bestTime,
                   successfulRunsData, analytics, decayCalls, localStorage>>
    /\ UNCHANGED callbacks

\* the driver with its Save and Load buttons, on the maze of the page load
\* (a stored table outlives the agent that New Maze replaces, so tables would
\* grow from one agent to the next without end)
ButtonsNext ==
    \/ startLearning
    \/ gameLoop
    \/ resetMouseAndAI
    \/ playMode
    \/ \E action \in Actions : keydown(action)
    \/ saveBtn
    \/ loadBtn

SpecButtons == Init /\ [][ButtonsNext]_vars

\* The step of the frame handle that gameLoop takes, with gameLoop's guard
\* (a learning step leaves steps alone on a blocked move and adds one otherwise).
animationFrame ==
    /\ animationInterval = "pending"
    /\ animationInterval' = "fired"
    /\ \/ isPaused \/ isPlayMode
       \/ /\ TotalLearn(ai) < MaxTrain
          /\ \E choice \in getAction(ai, getRelativeState(grid, mouse)) :
               LET nextPosition == getNextPosition(mouse, choice.action)
                   wouldBeValid == isValidPosition(grid, nextPosition.x, nextPosition.y)
               IN  mouse.steps + (IF wouldBeValid THEN 1 ELSE 0) <= MaxSteps

\* The browser runs a queued animation-frame callback; nothing obliges the
\* user to press a button or a key.
SpecLive == Init /\ [][Next]_vars /\ WF_animationInterval(animationFrame)

\* ----------------------------------------------- the agent on its own
\* The QLearningAgent class driven directly: constructor arguments, state
\* keys, actions and rewards are drawn from small sets.
AgentStates == {"2,2,0011", "1,2,0101"}
AgentLearnActions == {0, 3}
AgentRewards == {R(-10), Rat(19, 10)}
\* constructor arguments <<explorationRate, explorationDecay, minExplorationRate>>:
\* a rate above, at and below the minimum; the decay 1/2 is clamped to 0.9
AgentArguments ==
    {<<Rat(1, 2), Rat(1, 2), R(0)>>, <<R(0), Rat(1, 2), R(0)>>, <<R(0), Rat(1, 2), Rat(1, 10)>>}

AgentInit ==
    /\ grid = CHOOSE g \in generate : TRUE
    /\ \E args \in AgentArguments :
         ai = QLearningAgent(Rat(1, 5), Rat(19, 20), args[1], args[2], args[3])
    /\ mouse = Mouse(mazeStart.x, mazeStart.y)
    /\ analytics = MazeAnalytics
    /\ step = NoStep
    /\ isPlayMode = FALSE
    /\ isPaused = FALSE
    /\ animationInterval = "null"
    /\ generation = 0
    /\ successfulRuns = 0
    /\ totalSteps = 0
    /\ bestTime = <<>>
    /\ successfulRunsData = <<>>
    /\ decayCalls = 0
    /\ localStorage = NothingStored
    /\ timeouts = 0
    /\ frames = {}
    /\ overlay = FALSE

AgentFrame ==
    UNCHANGED <<grid, mouse, isPlayMode, isPaused, animationInterval, generation,
                successfulRuns, totalSteps, bestTime, successfulRunsData, analytics,
                localStorage,
                timeouts, frames, overlay>>

\* a call ai.getAction(state)
AgentGetAction ==
    /\ \E state \in AgentStates : \E choice \in getAction(ai, state) :
         /\ ai' = choice.agent
         /\ step' = [NoStep EXCEPT !.op = "getAction", !.state = state,
                                   !.action = choice.action,
                                   !.explored = choice.explored, !.best = choice.best]
    /\ UNCHANGED decayCalls
    /\ AgentFrame

\* a call ai.learn(state, action, reward, nextState)
AgentLearn ==
    /\ TotalLearn(ai) < MaxLearn
    /\ \E state \in AgentStates, action \in AgentLearnActions, reward \in AgentRewards,
          nextState \in AgentStates :
         /\ ai' = learn(ai, state, action, reward, nextState)
         /\ step' = [NoStep EXCEPT !.op = "learn", !.state = state, !.action = action,
                                   !.reward = reward, !.nextState = nextState]
    /\ UNCHANGED decayCalls
    /\ AgentFrame

\* a call ai.decayExploration()
AgentDecay ==
    /\ decayCalls < MaxDecay
    /\ ai' = decayExploration(ai)
    /\ decayCalls' = decayCalls + 1
    /\ step' = [NoStep EXCEPT !.op = "decay"]
    /\ AgentFrame

AgentNext == AgentGetAction \/ AgentLearn \/ AgentDecay

SpecAgent == AgentInit /\ [][AgentNext]_vars

\* ------------------------------------------------- the maze on its own
\* The Maze class driven directly: new Maze(width, height, cellSize) for the
\* driver's size and the next odd size, then generate(), isWall(x, y) and
\* isValidPosition(x, y) calls, the queries with coordinates from one cell
\* outside the grid on every side.
MazeSizes == {MAZE_SIZE, MAZE_SIZE + 2}

\* what generate() can leave, over the sizes above
GeneratedMazes == UNION { generateFor(width, height) : width \in MazeSizes, height \in MazeSizes }

MazeInit ==
    /\ grid \in GeneratedMazes
    /\ ai = QLearningAgent(Rat(1, 5), Rat(19, 20), R(1), Rat(995, 1000), Rat(1, 100))
    /\ mouse = Mouse(mazeStart.x, mazeStart.y)
    /\ analytics = MazeAnalytics
    /\ step = NoStep
    /\ isPlayMode = FALSE
    /\ isPaused = FALSE
    /\ animationInterval = "null"
    /\ generation = 0
    /\ successfulRuns = 0
    /\ totalSteps = 0
    /\ bestTime = <<>>
    /\ successfulRunsData = <<>>
    /\ decayCalls = 0
    /\ localStorage = NothingStored
    /\ timeouts = 0
    /\ frames = {}
    /\ overlay = FALSE

MazeFrame ==
    UNCHANGED <<mouse, ai, isPlayMode, isPaused, animationInterval, generation,
                successfulRuns, totalSteps, bestTime, successfulRunsData, analytics,
                decayCalls, localStorage,
                timeouts, frames, overlay>>

\* a call maze.generate() on the maze as it stands: width and height stay,
\* every row is rebuilt
MazeGenerate ==
    /\ grid' \in { g \in GeneratedMazes : Width(g) = Width(grid) /\ Height(g) = Height(grid) }
    /\ step' = [NoStep EXCEPT !.op = "generate"]
    /\ MazeFrame

\* a call maze.isWall(x, y)
MazeIsWall ==
    /\ \E x \in -1 .. Width(grid), y \in -1 .. Height(grid) :
         step' = [NoStep EXCEPT !.op = "isWall", !.from = [x |-> x, y |-> y],
                    !.result = IF isWallThrows(grid, x, y) THEN "TypeError"
                               ELSE IF isWall(grid, x, y) THEN "true" ELSE "false"]
    /\ UNCHANGED grid
    /\ MazeFrame

\* a call maze.isValidPosition(x, y)
MazeIsValidPosition ==
    /\ \E x \in -1 .. Width(grid), y \in -1 .. Height(grid) :
         step' = [NoStep EXCEPT !.op = "isValidPosition", !.from = [x |-> x, y |-> y],
                    !.result = IF isValidPosition(grid, x, y) THEN "true" ELSE "false"]
    /\ UNCHANGED grid
    /\ MazeFrame

MazeNext == MazeGenerate \/ MazeIsWall \/ MazeIsValidPosition

SpecMaze == MazeInit /\ [][MazeNext]_vars

\* ---------------------------------------- the agent and localStorage
\* A QLearningAgent with learn, saveQTable() and loadQTableFromStorage()
\* calls under the default key.  The page may find anything under the key:
\* nothing, the empty string, text that is not JSON, JSON that is not an
\* array (null, a number or an object), an array holding a non-entry item.
StoredContents ==
    { NothingStored,
      [kind |-> "empty", items |-> <<>>],
      [kind |-> "invalid", items |-> <<>>],
      [kind |-> "null", items |-> <<>>],
      [kind |-> "scalar", items |-> <<>>],
      [kind |-> "array", items |-> <<[isEntry |-> FALSE, key |-> "", values |-> <<>>]>>] }

StorageInit ==
    /\ grid \in generate
    /\ ai = QLearningAgent(Rat(1, 5), Rat(19, 20), R(1), Rat(995, 1000), Rat(1, 100))
    /\ mouse = Mouse(mazeStart.x, mazeStart.y)
    /\ analytics = MazeAnalytics
    /\ step = NoStep
    /\ isPlayMode = FALSE
    /\ isPaused = FALSE
    /\ animationInterval = "null"
    /\ generation = 0
    /\ successfulRuns = 0
    /\ totalSteps = 0
    /\ bestTime = <<>>
    /\ successfulRunsData = <<>>
    /\ decayCalls = 0
    /\ localStorage \in StoredContents
    /\ timeouts = 0
    /\ frames = {}
    /\ overlay = FALSE

StorageFrame ==
    UNCHANGED <<grid, mouse, isPlayMode, isPaused, animationInterval, generation,
                successfulRuns, totalSteps, bestTime, successfulRunsData, analytics,
                decayCalls,
                timeouts, frames, overlay>>

\* a call ai.learn(state, action, reward, nextState)
StorageLearn ==
    /\ TotalLearn(ai) < MaxLearn
    /\ \E state \in AgentStates, action \in AgentLearnActions, nextState \in AgentStates :
         /\ ai' = learn(ai, state, action, Rat(19, 10), nextState)
         /\ step' = [NoStep EXCEPT !.op = "learn", !.state = state, !.action = action,
                                   !.reward = Rat(19, 10), !.nextState = nextState]
    /\ UNCHANGED localStorage
    /\ StorageFrame

\* a call ai.saveQTable(); setItem may throw (quota, storage disabled)
StorageSave ==
    /\ \E canWrite \in BOOLEAN :
         LET r == saveQTable(ai, localStorage, canWrite)
         IN  /\ localStorage' = r.stored
             /\ step' = [NoStep EXCEPT !.op = "save", !.threw = ~canWrite,
                                       !.result = IF r.ok THEN "true" ELSE "false"]
    /\ UNCHANGED ai
    /\ StorageFrame

\* a call ai.loadQTableFromStorage(); getItem may throw (storage disabled)
StorageLoad ==
    /\ \E canRead \in BOOLEAN :
         LET r == loadQTableFromStorage(ai, localStorage, canRead)
         IN  /\ ai' = r.agent
             /\ step' = [NoStep EXCEPT !.op = "load", !.threw = ~canRead,
                                       !.result = IF r.ok THEN "true" ELSE "false"]
    /\ UNCHANGED localStorage
    /\ StorageFrame

StorageNext == StorageLearn \/ StorageSave \/ StorageLoad

SpecStorage == StorageInit /\ [][StorageNext]_vars

\* ------------------------------------------ the agent under any input
\* The agent's methods called with arguments a caller can pass and with
\* stored text another writer can leave under the key: a non-finite reward,
\* an action outside 0..3, a stored entry whose value has two numbers, a
\* stored array with a non-entry item after a well-formed entry, a loadQTable
\* argument that is no Map or holds a non-array value.
RobustState == "2,2,0011"
RobustActions == {0, 4}
RobustRewards == {Rat(19, 10), NaN, Infinity}

\* constructor arguments: the driver's, every one below its interval, every
\* one above, every one inside, every one NaN
RobustConstructorArguments ==
    { <<Rat(1, 5), Rat(19, 20), R(1), Rat(995, 1000), Rat(1, 100)>>,
      <<Rat(-1, 2), Rat(-1, 2), Rat(-1, 2), Rat(-1, 2), Rat(-1, 2)>>,
      <<Rat(3, 2), Rat(3, 2), Rat(3, 2), Rat(3, 2), Rat(3, 2)>>,
      <<Rat(1, 2), Rat(1, 2), Rat(1, 2), Rat(1, 2), Rat(1, 10)>>,
      <<NaN, NaN, NaN, NaN, NaN>> }

ShortEntry == [isEntry |-> TRUE, key |-> RobustState, values |-> <<<<1, 0>>, <<2, 0>>>>]
GoodEntry == [isEntry |-> TRUE, key |-> RobustState, values |-> <<<<1, 0>>, <<2, 0>>, <<3, 0>>, <<4, 0>>>>]
NonEntry == [isEntry |-> FALSE, key |-> "", values |-> <<>>]

RobustStoredContents ==
    { [kind |-> "array", items |-> <<GoodEntry>>],
      [kind |-> "array", items |-> <<ShortEntry>>],
      [kind |-> "array", items |-> <<GoodEntry, NonEntry>>] }

RobustArguments ==
    { [isMap |-> FALSE, entries |-> <<>>],
      [isMap |-> TRUE, entries |-> <<[key |-> RobustState, isArray |-> FALSE, value |-> <<>>]>>],
      [isMap |-> TRUE, entries |-> <<[key |-> RobustState, isArray |-> TRUE, value |-> <<R(1), R(2)>>]>>] }

RobustInit ==
    /\ grid \in generate
    /\ ai = QLearningAgent(Rat(1, 5), Rat(19, 20), R(1), Rat(995, 1000), Rat(1, 100))
    /\ mouse = Mouse(mazeStart.x, mazeStart.y)
    /\ analytics = MazeAnalytics
    /\ step = NoStep
    /\ isPlayMode = FALSE
    /\ isPaused = FALSE
    /\ animationInterval = "null"
    /\ generation = 0
    /\ successfulRuns = 0
    /\ totalSteps = 0
    /\ bestTime = <<>>
    /\ successfulRunsData = <<>>
    /\ decayCalls = 0
    /\ localStorage \in RobustStoredContents
    /\ timeouts = 0
    /\ frames = {}
    /\ overlay = FALSE

RobustFrame ==
    UNCHANGED <<grid, mouse, isPlayMode, isPaused, animationInterval, generation,
                successfulRuns, totalSteps, bestTime, successfulRunsData, analytics,
                decayCalls, localStorage,
                timeouts, frames, overlay>>

\* ai = new QLearningAgent(...arguments)
RobustNew ==
    /\ \E args \in RobustConstructorArguments :
         /\ ai' = QLearningAgent(args[1], args[2], args[3], args[4], args[5])
         /\ step' = [NoStep EXCEPT !.op = "new", !.arguments = args]
    /\ RobustFrame

\* a call ai.learn(state, action, reward, nextState)
RobustLearn ==
    /\ TotalLearn(ai) < MaxLearn
    /\ \E action \in RobustActions, reward \in RobustRewards :
         /\ ai' = learn(ai, RobustState, action, reward, RobustState)
         /\ step' = [NoStep EXCEPT !.op = "learn", !.state = RobustState, !.action = action,
                                   !.reward = reward, !.nextState = RobustState]
    /\ RobustFrame

\* a call ai.loadQTableFromStorage()
RobustLoadFromStorage ==
    /\ LET r == loadQTableFromStorage(ai, localStorage, TRUE)
       IN  /\ ai' = r.agent
           /\ step' = [NoStep EXCEPT !.op = "load",
                                     !.result = IF r.ok THEN "true" ELSE "false"]
    /\ RobustFrame

\* a call ai.loadQTable(argument)
RobustLoadQTable ==
    /\ \E argument \in RobustArguments :
         /\ ai' = loadQTable(ai, argument)
         /\ step' = [NoStep EXCEPT !.op = "loadQTable",
                                   !.result = IF argument.isMap THEN "Map" ELSE "no Map"]
    /\ RobustFrame

\* a call ai.reset()
RobustReset ==
    /\ ai' = reset(ai)
    /\ step' = [NoStep EXCEPT !.op = "reset"]
    /\ RobustFrame

RobustNext ==
    \/ RobustNew
    \/ RobustLearn
    \/ RobustLoadFromStorage
    \/ RobustLoadQTable
    \/ RobustReset

SpecRobust == RobustInit /\ [][RobustNext]_vars

\* ------------------------------------------------- the mouse on its own
\* A Mouse on a generated maze, driven directly: move(direction) in every
\* direction, whether the target is open or not, and reset().
MouseInit ==
    /\ grid \in GeneratedMazes
    /\ ai = QLearningAgent(Rat(1, 5), Rat(19, 20), R(1), Rat(995, 1000), Rat(1, 100))
    /\ mouse = Mouse(mazeStart.x, mazeStart.y)
    /\ analytics = MazeAnalytics
    /\ step = NoStep
    /\ isPlayMode = FALSE
    /\ isPaused = FALSE
    /\ animationInterval = "null"
    /\ generation = 0
    /\ successfulRuns = 0
    /\ totalSteps = 0
    /\ bestTime = <<>>
    /\ successfulRunsData = <<>>
    /\ decayCalls = 0
    /\ localStorage = NothingStored
    /\ timeouts = 0
    /\ frames = {}
    /\ overlay = FALSE

MouseFrame ==
    UNCHANGED <<grid, ai, isPlayMode, isPaused, animationInterval, generation,
                successfulRuns, totalSteps, bestTime, successfulRunsData, analytics,
                decayCalls, localStorage,
                timeouts, frames, overlay>>

\* a call mouse.move(direction)
MouseMove ==
    /\ mouse.steps < MaxSteps
    /\ \E direction \in Actions :
         /\ mouse' = move(grid, mouse, direction)
         /\ step' = [NoStep EXCEPT !.op = "move", !.action = direction,
                                   !.from = [x |-> mouse.x, y |-> mouse.y],
                                   !.to = [x |-> mouse'.x, y |-> mouse'.y],
                                   !.result = IF moveReturns(grid, mouse, direction)
                                              THEN "true" ELSE "false"]
    /\ MouseFrame

\* a call mouse.reset(maze.start.x, maze.start.y)
MouseCallReset ==
    /\ mouse' = MouseReset(mouse, mazeStart.x, mazeStart.y)
    /\ step' = [NoStep EXCEPT !.op = "reset"]
    /\ MouseFrame

\* a call ai.getRelativeState(mouse)
MouseGetRelativeState ==
    /\ step' = [NoStep EXCEPT !.op = "getRelativeState",
                              !.from = [x |-> mouse.x, y |-> mouse.y],
                              !.state = getRelativeState(grid, mouse)]
    /\ UNCHANGED mouse
    /\ MouseFrame

MouseNext == MouseMove \/ MouseCallReset \/ MouseGetRelativeState

SpecMouse == MouseInit /\ [][MouseNext]_vars

\* ------------------------------------------------- the replay agent
\* The QLearningAgent of part_001:1-224, the one class of the repository
\* that has the performanceTracker and updateLearningRate members the driver
\* calls (index.html:245, 248, 463).  Its constructor does not clamp, its
\* state key spells the wall flags as true/false, learn() is followed by an
\* experience replay and loadQTable copies the Map but not its rows.
QLearningAgentReplay(learningRate, discountFactor, explorationRate, explorationDecay, minExplorationRate) ==
    [learningRate |-> learningRate,
     discountFactor |-> discountFactor,
     explorationRate |-> explorationRate,
     explorationDecay |-> explorationDecay,
     minExplorationRate |-> minExplorationRate,
     qTable |-> <<>>,
     performanceTracker |-> <<>>,
     experienceBuffer |-> <<>>]

\* getRelativeState(mouse): walls.join('') of four booleans
getRelativeStateReplay(g, m) ==
    LET cells == <<<<m.x + 1, m.y>>, <<m.x, m.y + 1>>, <<m.x - 1, m.y>>, <<m.x, m.y - 1>>>>
        word(k) == IF isWall(g, cells[k][1], cells[k][2]) THEN "true" ELSE "false"
        end == GoalOf(g)
    IN  ToString(end[1] - m.x) \o "," \o ToString(end[2] - m.y) \o ","
        \o word(1) \o word(2) \o word(3) \o word(4)

\* getAction(state): every outcome of the call
getActionReplay(agent, state) ==
    LET explore == IF RLt(R(0), agent.explorationRate)
                   THEN { [action |-> a, explored |-> TRUE, best |-> <<>>, agent |-> agent] :
                            a \in Actions }
                   ELSE {}
        table == LazyInit(agent.qTable, state)
        best == bestActions(table[state])
        exploit == IF RLt(agent.explorationRate, R(1))
                   THEN { [action |-> best[i], explored |-> FALSE, best |-> best,
                           agent |-> [agent EXCEPT !.qTable = table]] :
                            i \in 1 .. Len(best) }
                   ELSE {}
    IN  explore \cup exploit

\* the Q-learning update of learn() and of replayExperience(), on the table
QUpdate(agent, qTable, exp) ==
    LET t1 == LazyInit(LazyInit(qTable, exp.state), exp.nextState)
        currentQ == ReadIndex(t1[exp.state], exp.action)
        nextMaxQ == XMathMax(t1[exp.nextState])
        newQ == XAdd(currentQ,
                     XMul(agent.learningRate,
                          XSub(XAdd(exp.reward, XMul(agent.discountFactor, nextMaxQ)), currentQ)))
    IN  [t1 EXCEPT ![exp.state] = WriteIndex(@, exp.action, newQ)]

\* ExperienceBuffer.add
BufferAdd(buffer, exp) ==
    Append(IF Len(buffer) >= maxSize THEN Tail(buffer) ELSE buffer, exp)

\* ExperienceBuffer.sample(): every batch the random indices can draw
BufferSample(buffer) ==
    LET n == IF batchSize < Len(buffer) THEN batchSize ELSE Len(buffer)
    IN  { [i \in 1 .. n |-> buffer[idx[i]]] : idx \in [1 .. n -> 1 .. Len(buffer)] }

\* replayExperience() on one sampled batch
RECURSIVE replayExperience(_, _)
replayExperience(agent, batch) ==
    IF batch = <<>> THEN agent
    ELSE replayExperience([agent EXCEPT !.qTable = QUpdate(agent, agent.qTable, Head(batch))],
                          Tail(batch))

\* learn(state, action, reward, nextState): every agent the call can leave
learnReplay(agent, state, action, reward, nextState) ==
    LET exp == [state |-> state, action |-> action, reward |-> reward, nextState |-> nextState]
        stored == [agent EXCEPT !.experienceBuffer = BufferAdd(@, exp)]
        updated == [stored EXCEPT !.qTable = QUpdate(stored, stored.qTable, exp)]
    IN  { replayExperience(updated, batch) : batch \in BufferSample(updated.experienceBuffer) }

\* getReward(mouse, action, wasValidMove) of the replay agent, evaluated on the
\* mouse as it is when the caller passes it: lastMove holds the cell the
\* mouse came from, which the code subtracts from the position
getRewardReplay(m, action, wasValidMove) ==
    IF ~wasValidMove THEN R(-10)
    ELSE IF isAtEnd(m) THEN R(100)
    ELSE LET currentDist == Dist(m.x, m.y)
             prevDist == Dist(m.x - m.lastMove.dx, m.y - m.lastMove.dy)
             base == Rat(-1, 10)
             shaped == IF currentDist < prevDist THEN RAdd(base, R(2))
                       ELSE IF currentDist > prevDist THEN RSub(base, R(1))
                       ELSE base
         IN  IF posKey(m.x, m.y) \in m.visited THEN RSub(shaped, R(5)) ELSE shaped

\* PerformanceTracker.addResult(steps)
addResult(recentPerformances, steps) ==
    LET pushed == Append(recentPerformances, steps)
    IN  IF Len(pushed) > windowSize THEN Tail(pushed) ELSE pushed

\* PerformanceTracker.isImproving(): the last 10 results against the 10 before
isImproving(recentPerformances) ==
    LET n == Len(recentPerformances)
        recent == SubSeq(recentPerformances, n - 9, n)
        older == SubSeq(recentPerformances, n - 19, n - 10)
    IN  IF n < 20 THEN FALSE
        ELSE SumOver(recent, DOMAIN recent) < SumOver(older, DOMAIN older)

\* updateLearningRate(episode, performance).  The source multiplies by 1.01
\* and by 0.99; with 0.99 the rate takes a new value with two more decimal
\* digits at every iteration until it reaches the floor 0.1, so the model
\* takes the factor 1/2, which reaches the floor at once.
updateLearningRate(agent) ==
    IF isImproving(agent.performanceTracker)
    THEN [agent EXCEPT !.learningRate = RMin(Rat(1, 2), RMul(@, Rat(101, 100)))]
    ELSE [agent EXCEPT !.learningRate = RMax(Rat(1, 10), RMul(@, Rat(1, 2)))]

\* getQTableCopy(): the rows are copied, so the copy shares nothing
getQTableCopy(agent) == agent.qTable

\* loadQTable(qTable): new Map(qTable) copies the Map and keeps its row
\* arrays, so every row of the argument is from then on a row of the agent
loadQTableReplay(agent, qTable) == [agent EXCEPT !.qTable = qTable]

\* ------------------------------------------- the driver, replay agent
\* The driver of index.html with the replay agent: no handler throws, so a run
\* that reaches the goal is finalized, put on the leaderboard and followed by
\* the pause, the resume timer or the celebration overlay.  A handler is an
\* operator from the session (every variable of the page) to the session it
\* leaves, so that a handler can call another one.
\*   animationInterval  0 for null or undefined, else the id of the last
\*                      requested frame (ids are positive)
\*   successfulRunsData each run holds `shared`, the keys whose row array is
\*                      also a row of the agent's table, and `taken`, the
\*                      values its qTable had when the run was pushed
Session ==
    [grid |-> grid, mouse |-> mouse, ai |-> ai, step |-> step, isPlayMode |-> isPlayMode,
     isPaused |-> isPaused, animationInterval |-> animationInterval,
     generation |-> generation, successfulRuns |-> successfulRuns,
     totalSteps |-> totalSteps, bestTime |-> bestTime,
     successfulRunsData |-> successfulRunsData, analytics |-> analytics,
     decayCalls |-> decayCalls, localStorage |-> localStorage, timeouts |-> timeouts,
     frames |-> frames, overlay |-> overlay]

Becomes(s) ==
    /\ grid' = s.grid
    /\ mouse' = s.mouse
    /\ ai' = s.ai
    /\ step' = s.step
    /\ isPlayMode' = s.isPlayMode
    /\ isPaused' = s.isPaused
    /\ animationInterval' = s.animationInterval
    /\ generation' = s.generation
    /\ successfulRuns' = s.successfulRuns
    /\ totalSteps' = s.totalSteps
    /\ bestTime' = s.bestTime
    /\ successfulRunsData' = s.successfulRunsData
    /\ analytics' = s.analytics
    /\ decayCalls' = s.decayCalls
    /\ localStorage' = s.localStorage
    /\ timeouts' = s.timeouts
    /\ frames' = s.frames
    /\ overlay' = s.overlay

\* requestAnimationFrame(gameLoop): an id no queued callback and no handle holds
requestAnimationFrame(s) ==
    LET id == CHOOSE n \in 1 .. Cardinality(s.frames) + 1 : n \notin s.frames
    IN  [s EXCEPT !.frames = @ \cup {id}, !.animationInterval = id]

\* stopAnimation(): cancelAnimationFrame of the handle, if it holds an id
stopAnimationIn(s) ==
    IF s.animationInterval # 0
    THEN [s EXCEPT !.frames = @ \ {s.animationInterval}, !.animationInterval = 0]
    ELSE s

\* a Start that requests a frame without cancelling the one queued
startLearningKeepsFrame(s) ==
    IF s.isPaused THEN s
    ELSE requestAnimationFrame([s EXCEPT !.isPlayMode = FALSE])

\* startLearning()
startLearningIn(s) ==
    IF s.isPaused THEN s
    ELSE requestAnimationFrame([stopAnimationIn(s) EXCEPT !.isPlayMode = FALSE])

\* generateNewMaze() with the maze g that maze.generate() leaves
generateNewMazeIn(s, g) ==
    [stopAnimationIn(s) EXCEPT
        !.isPlayMode = FALSE,
        !.grid = g,
        !.ai = QLearningAgentReplay(Rat(1, 5), Rat(19, 20), R(1), Rat(995, 1000), Rat(1, 100)),
        !.mouse = Mouse(mazeStart.x, mazeStart.y),
        !.analytics = MazeAnalytics,
        !.generation = 0,
        !.successfulRuns = 0,
        !.totalSteps = 0,
        !.bestTime = <<>>,
        !.successfulRunsData = <<>>,
        !.decayCalls = 0,
        !.step = NoStep]

\* the leaderboard after ai.loadQTable(successfulRunsData[1].qTable): the
\* rows of the best run are the agent's rows, those of the other runs are not
SharedWithBest(runs) ==
    [i \in DOMAIN runs |->
        [runs[i] EXCEPT !.shared = IF i = 1 THEN DOMAIN runs[i].qTable ELSE {}]]

\* no run shares a row with the agent (the agent's table was replaced)
SharedWithNone(runs) == [i \in DOMAIN runs |-> [runs[i] EXCEPT !.shared = {}]]

\* resetMouseAndAI(loadBestAI)
resetMouseAndAIIn(s, loadBestAI) ==
    LET stopped == [stopAnimationIn(s) EXCEPT !.isPlayMode = FALSE]
        loaded == IF loadBestAI /\ Len(stopped.successfulRunsData) > 0
                  THEN [stopped EXCEPT
                          !.ai = loadQTableReplay(@, stopped.successfulRunsData[1].qTable),
                          !.successfulRunsData = SharedWithBest(@)]
                  ELSE stopped
    IN  [loaded EXCEPT !.mouse = MouseReset(@, mazeStart.x, mazeStart.y)]

\* successfulRunsData.sort((a, b) => a.steps - b.steps): the sort is stable
RECURSIVE SortBySteps(_)
SortBySteps(runs) ==
    IF Len(runs) <= 1 THEN runs
    ELSE LET front == SortBySteps(SubSeq(runs, 1, Len(runs) - 1))
             last == runs[Len(runs)]
             before == SelectSeq(front, LAMBDA run : run.steps <= last.steps)
             after == SelectSeq(front, LAMBDA run : run.steps > last.steps)
         IN  before \o <<last>> \o after

\* the leaderboard after the push, the sort and the slice of handleSuccessfulRun
Leaderboard(runs) ==
    LET sorted == SortBySteps(runs)
    IN  IF Len(sorted) > MAX_SCOREBOARD_ENTRIES
        THEN SubSeq(sorted, 1, MAX_SCOREBOARD_ENTRIES) ELSE sorted

\* handleSuccessfulRun()
handleSuccessfulRunIn(s) ==
    LET currentRunSteps == s.mouse.steps
        recorded == recordEpisode(s.analytics, s.mouse, s.generation, currentRunSteps)
        run == [generation |-> s.generation, steps |-> currentRunSteps,
                qTable |-> getQTableCopy(s.ai), shared |-> {},
                taken |-> getQTableCopy(s.ai)]
        counted == [s EXCEPT
                      !.successfulRuns = @ + 1,
                      !.totalSteps = @ + currentRunSteps,
                      !.bestTime = IF @ = <<>> \/ currentRunSteps < @[1]
                                   THEN <<currentRunSteps>> ELSE @,
                      !.analytics = recorded,
                      !.successfulRunsData = IF s.isPlayMode THEN @
                                             ELSE Leaderboard(Append(@, run)),
                      !.isPaused = TRUE]
        stopped == stopAnimationIn(counted)
    IN  IF recorded.mazeSolved
        THEN [stopped EXCEPT !.overlay = TRUE]
        ELSE [stopped EXCEPT !.timeouts = @ + 1]

\* the rows a run shares with the agent, as the agent's table now holds them
SyncShared(runs, qTable) ==
    [i \in DOMAIN runs |->
        [runs[i] EXCEPT !.qTable = [key \in DOMAIN @ |->
                                       IF key \in runs[i].shared THEN qTable[key] ELSE @[key]]]]

\* the learning iterations the agent has run that left the mouse short of
\* the goal
Wandered(s) ==
    LET goal == getRelativeStateReplay(s.grid, Mouse(GoalOf(s.grid)[1], GoalOf(s.grid)[2]))
    IN  Len(SelectSeq(s.ai.experienceBuffer, LAMBDA exp : exp.nextState # goal))

\* whether an iteration that leaves the mouse as `moved` stays within the bounds
WithinBounds(s, moved) ==
    /\ moved.steps <= MaxMoves
    /\ IF isAtEnd(moved) THEN s.successfulRuns < MaxEpisodes
       ELSE Wandered(s) < MaxWander

\* one iteration of gameLoop's for loop, up to the goal test: every session
\* it can leave.  An iteration that would pass a bound is not taken.
LearningIteration(s) ==
    LET currentState == getRelativeStateReplay(s.grid, s.mouse)
    IN  UNION { LET action == choice.action
                    nextPosition == getNextPosition(s.mouse, action)
                    wouldBeValid == isValidPosition(s.grid, nextPosition.x, nextPosition.y)
                    reward == getRewardReplay(s.mouse, action, wouldBeValid)
                    moved == IF wouldBeValid THEN move(s.grid, s.mouse, action) ELSE s.mouse
                    nextState == IF wouldBeValid THEN getRelativeStateReplay(s.grid, moved)
                                 ELSE currentState
                    locals == [op |-> "train", state |-> currentState, action |-> action,
                               reward |-> reward, nextState |-> nextState,
                               valid |-> wouldBeValid,
                               from |-> [x |-> s.mouse.x, y |-> s.mouse.y],
                               to |-> [x |-> moved.x, y |-> moved.y],
                               seen |-> s.mouse.visited, explored |-> choice.explored,
                               best |-> choice.best, result |-> "", threw |-> FALSE,
                               arguments |-> <<>>]
                IN  IF ~WithinBounds(s, moved) THEN {} ELSE
                    { LET tracked == [learned EXCEPT !.performanceTracker = addResult(@, moved.steps)]
                          agent == updateLearningRate(tracked)
                      IN  [s EXCEPT !.mouse = moved,
                                    !.ai = agent,
                                    !.successfulRunsData = SyncShared(@, agent.qTable),
                                    !.step = locals] :
                        learned \in learnReplay(choice.agent, currentState, action, reward,
                                                nextState) } :
              choice \in getActionReplay(s.ai, currentState) }

\* the iterations i .. LEARNING_STEPS_PER_FRAME of gameLoop's loop and what
\* follows them
RECURSIVE Iterations(_, _)
Iterations(s, i) ==
    IF i > LEARNING_STEPS_PER_FRAME THEN {requestAnimationFrame(s)}
    ELSE UNION { IF isAtEnd(after.mouse) THEN {handleSuccessfulRunIn(after)}
                 ELSE Iterations(after, i + 1) : after \in LearningIteration(s) }

\* gameLoop(timestamp), the callback with the given id leaving the queue
gameLoopIn(s, id) ==
    LET fired == [s EXCEPT !.frames = @ \ {id}]
    IN  IF s.isPaused \/ s.isPlayMode THEN {fired} ELSE Iterations(fired, 1)

\* the keydown handler for the arrow key of an action: the sessions it leaves
keydownIn(s, action) ==
    LET nextPosition == getNextPosition(s.mouse, action)
        moved == [s EXCEPT !.mouse = move(s.grid, s.mouse, action)]
    IN  IF ~s.isPlayMode \/ s.isPaused THEN {s}
        ELSE IF ~isValidPosition(s.grid, nextPosition.x, nextPosition.y) THEN {s}
        ELSE IF moved.mouse.steps > MaxMoves THEN {}
        ELSE IF isAtEnd(moved.mouse)
        THEN (IF s.successfulRuns >= MaxEpisodes THEN {} ELSE {handleSuccessfulRunIn(moved)})
        ELSE {moved}

\* the callback of the setTimeout calls of index.html:307 and 348
resumeIn(s) ==
    startLearningIn([s EXCEPT
        !.isPaused = FALSE,
        !.generation = @ + 1,
        !.ai = decayExploration(@),
        !.decayCalls = @ + 1,
        !.mouse = MouseReset(@, mazeStart.x, mazeStart.y)])

\* what localStorage holds when the page is loaded after an earlier session
\* has saved a table with one row
StoredEarlier ==
    [kind |-> "array",
     items |-> <<[isEntry |-> TRUE, key |-> "2,2,falsetruetruetrue",
                  values |-> [i \in 1 .. 4 |-> NumberToJson(R(0))]]>>]

\* the Load button: ai.loadQTableFromStorage() and, when it returns true,
\* resetMouseAndAI(false)
loadBtnIn(s, canRead) ==
    LET r == loadQTableFromStorage(s.ai, s.localStorage, canRead)
    IN  IF r.ok
        THEN resetMouseAndAIIn([s EXCEPT !.ai = r.agent,
                                         !.successfulRunsData = SharedWithNone(@)], FALSE)
        ELSE s

ReplayInit ==
    /\ grid \in generate
    /\ ai = QLearningAgentReplay(Rat(1, 5), Rat(19, 20), R(1), Rat(995, 1000), Rat(1, 100))
    /\ mouse = Mouse(mazeStart.x, mazeStart.y)
    /\ analytics = MazeAnalytics
    /\ step = NoStep
    /\ isPlayMode = FALSE
    /\ isPaused = FALSE
    /\ animationInterval = 0
    /\ generation = 0
    /\ successfulRuns = 0
    /\ totalSteps = 0
    /\ bestTime = <<>>
    /\ successfulRunsData = <<>>
    /\ decayCalls = 0
    /\ localStorage = StoredEarlier
    /\ timeouts = 0
    /\ frames = {}
    /\ overlay = FALSE

\* the Start button
startLearningReplay == \E s \in {startLearningIn(Session)} : Becomes(s)

\* a queued gameLoop callback runs
gameLoopReplay == \E id \in frames : \E s \in gameLoopIn(Session, id) : Becomes(s)

\* the Reset button
resetBtnReplay == \E s \in {resetMouseAndAIIn(Session, TRUE)} : Becomes(s)

\* the New Maze button
newMazeBtnReplay == \E s \in {generateNewMazeIn(Session, g) : g \in generate} : Becomes(s)

\* the Play Mode button
playModeBtnIn(s) ==
    [stopAnimationIn(s) EXCEPT !.isPlayMode = TRUE,
                               !.mouse = MouseReset(@, mazeStart.x, mazeStart.y)]

playModeBtnReplay == \E s \in {playModeBtnIn(Session)} : Becomes(s)

\* an arrow key
keydownReplay == \E action \in Actions : \E s \in keydownIn(Session, action) : Becomes(s)

\* a queued resume timer fires
resumeTimer ==
    /\ timeouts > 0
    /\ decayCalls < MaxDecay
    /\ \E s \in {resumeIn([Session EXCEPT !.timeouts = @ - 1])} : Becomes(s)

\* the overlay's Try New Maze button
nextMazeBtn ==
    /\ overlay
    /\ \E g \in generate :
         LET currentQTable == getQTableCopy(ai)
             removed == [Session EXCEPT !.overlay = FALSE]
             generated == generateNewMazeIn(removed, g)
             loaded == [generated EXCEPT !.ai = loadQTableReplay(@, currentQTable)]
         IN  \E s \in {startLearningIn(loaded)} : Becomes(s)

\* the overlay's Keep Training button
keepTrainingBtn ==
    /\ overlay
    /\ \E s \in {[Session EXCEPT !.overlay = FALSE, !.timeouts = @ + 1]} : Becomes(s)

\* the Load button
loadBtnReplay == \E s \in {loadBtnIn(Session, canRead) : canRead \in BOOLEAN} : Becomes(s)

ReplayNext ==
    \/ startLearningReplay
    \/ gameLoopReplay
    \/ resetBtnReplay
    \/ newMazeBtnReplay
    \/ playModeBtnReplay
    \/ keydownReplay
    \/ resumeTimer
    \/ nextMazeBtn
    \/ keepTrainingBtn
    \/ loadBtnReplay

SpecReplay == ReplayInit /\ [][ReplayNext]_vars

\* ---------------------------------------------------------------- claims
\* the cell a learning step's action points at, and whether it is a wall or
\* lies outside the grid
StepTarget == [x |-> step.from.x + DX(step.action), y |-> step.from.y + DY(step.action)]
StepBlocked ==
    \/ StepTarget.x \notin Xs
    \/ StepTarget.y \notin Ys
    \/ grid[StepTarget.y][StepTarget.x] = 1

\* the values a state key holds, an absent key counting as all-zero
QRow(agent, state) == IF state \in DOMAIN agent.qTable THEN agent.qTable[state] ELSE Zeros

\* the actions that attain the maximum of a row
ArgMax(qValues) == {a \in Actions : \A b \in Actions : RLe(qValues[b + 1], qValues[a + 1])}

C2_GoalReward ==
    (step.op = "train" /\ step.valid /\ step.to = mazeEnd) => step.reward = R(100)

\* C3: a learning step whose action points at a wall or outside the grid uses
\* reward -10 and leaves the mouse where it was.
C3_WallPenalty ==
    (step.op = "train" /\ StepBlocked) =>
        /\ step.reward = R(-10)
        /\ step.to = step.from
        /\ ~step.valid

\* C3 witness: a learning step ran into a wall.
C3_Witness ==
    /\ step.op = "train"
    /\ StepBlocked
    /\ step.reward = R(-10)
    /\ mouse.x = step.from.x /\ mouse.y = step.from.y

\* C4 (as the specification states it): for a valid move that does not reach
\* the goal, the reward is -0.1 plus a distance term that compares the
\* destination with the cell the step started from: +2 if nearer the goal,
\* -1 if farther, 0 if level (less a revisit penalty of 0 to 5).
C4_DistanceTerm ==
    (step.op = "train" /\ step.valid /\ step.to # mazeEnd) =>
        LET before == Dist(step.from.x, step.from.y)
            after == Dist(step.to.x, step.to.y)
            term == IF after < before THEN R(2) ELSE IF after > before THEN R(-1) ELSE R(0)
        IN  \E penalty \in 0 .. 5 :
                step.reward = RSub(RAdd(Rat(-1, 10), term), R(penalty))

\* C5 (as the specification states it): a valid non-goal move into a cell
\* that was not in the visited set before the move carries no revisit penalty.
C5_NoPenaltyOnFreshCell ==
    (/\ step.op = "train" /\ step.valid /\ step.to # mazeEnd
     /\ posKey(step.to.x, step.to.y) \notin step.seen) =>
        step.reward \in {Rat(19, 10), Rat(-1, 10), Rat(-11, 10)}

\* C6: the mouse is always inside the grid on a path cell of the current maze.
C6_OnPathCell ==
    /\ mouse.x \in Xs
    /\ mouse.y \in Ys
    /\ grid[mouse.y][mouse.x] = 0

\* C6 witness: the mouse has left the start cell and stands on a path cell.
C6_Witness ==
    /\ mouse.steps > 1
    /\ <<mouse.x, mouse.y>> # <<mazeStart.x, mazeStart.y>>
    /\ isValidPosition(grid, mouse.x, mouse.y)

\* C7 (as the specification states it): the step counter equals the length of
\* the path minus one.
C7_StepsIsPathMinusOne == mouse.steps = Len(mouse.path) - 1

\* C8 (as the specification states it): for every agent the constructor
\* accepts, a decayExploration call never raises the exploration rate.
C8_NonIncreasing ==
    [][step'.op = "decay" => RLe(ai'.explorationRate, ai.explorationRate)]_vars

\* C9: the exploitation branch of getAction returns an action that attains the
\* maximum of the state's row, and every such action is a possible result.
C9_ArgMax ==
    /\ \A state \in AgentStates :
         LET exploit == {c \in getAction(ai, state) : ~c.explored}
         IN  /\ {c.action : c \in exploit} \subseteq ArgMax(QRow(ai, state))
             /\ RLt(ai.explorationRate, R(1)) =>
                  {c.action : c \in exploit} = ArgMax(QRow(ai, state))
    /\ (step.op = "getAction" /\ ~step.explored) =>
         step.action \in ArgMax(QRow(ai, step.state))

\* C9 witness: after some learning, an exploiting call met a tie and returned
\* an action that is not the lowest-indexed maximum.
C9_Witness ==
    /\ step.op = "getAction"
    /\ ~step.explored
    /\ TotalLearn(ai) > 0
    /\ Len(step.best) > 1
    /\ step.action # step.best[1]

\* C10: a key never written reads as four zeros: the first learn(s, a, r, s')
\* on an empty table with s # s' leaves Q(s,a) = alpha * r, the rest of s at 0
\* and s' at 0; getAction on an absent key sees four equal values.
C10_LazyZeros ==
    [][/\ (step'.op = "learn" /\ ai.qTable = <<>> /\ step'.state # step'.nextState) =>
            /\ ai'.qTable[step'.state] =
                 [Zeros EXCEPT ![step'.action + 1] = RMul(ai.learningRate, step'.reward)]
            /\ ai'.qTable[step'.nextState] = Zeros
       /\ (/\ step'.op = "getAction" /\ ~step'.explored
           /\ step'.state \notin DOMAIN ai.qTable) =>
            /\ step'.best = <<0, 1, 2, 3>>
            /\ ai'.qTable[step'.state] = Zeros]_vars

\* C10 witness: one learn call has run, with s # s', and nothing but Q(s,a)
\* is non-zero.
C10_Witness ==
    /\ step.op = "learn"
    /\ TotalLearn(ai) = 1
    /\ step.state # step.nextState
    /\ ai.qTable[step.state][step.action + 1] = RMul(ai.learningRate, step.reward)
    /\ ai.qTable[step.nextState] = Zeros

EpisodeSucceeded ==
    /\ step.op = "train"
    /\ step.valid
    /\ step.to = mazeEnd
    /\ isAtEnd(mouse)

\* C12 (as the specification states it): after an episode that ends on the
\* goal the driver, by itself, eventually increments the generation counter,
\* decays exploration, puts the mouse back on the start cell and runs
\* learning steps again.
C12_EventuallyResumes ==
    \A n \in 0 .. MaxRuns :
        (EpisodeSucceeded /\ generation = n /\ decayCalls = n)
            ~> (/\ generation = n + 1
                /\ decayCalls = n + 1
                /\ mouse.x = mazeStart.x /\ mouse.y = mazeStart.y
                /\ animationInterval = "pending")

\* C13: every episode terminates: a training episode that has taken a learning
\* step without reaching the goal eventually stands on the goal or is ended
\* (the mouse is put back, the step record is cleared), with no user input.
EpisodeRunning == step.op = "train" /\ ~isAtEnd(mouse)

C13_EpisodeTerminates == EpisodeRunning ~> (isAtEnd(mouse) \/ step.op # "train")

\* C14: generation changes only by one upwards (a new maze starts a new
\* session at 0), and when training resumes after an episode that ended on
\* the goal, generation is one more than before.
TrainingResumes == animationInterval # "pending" /\ animationInterval' = "pending"

C14_GenerationCounts ==
    [][/\ generation' # generation => (generation' = generation + 1 \/ generation' = 0)
       /\ (EpisodeSucceeded /\ TrainingResumes) => generation' = generation + 1]_vars

\* C15: a learning step leaves the exploration rate alone, and when training
\* resumes after a completed episode the rate has been decayed exactly once
\* (one decayExploration call, the rate is max(min, rate * decay)).
LearningStepTaken == animationInterval = "pending" /\ animationInterval' = "fired" /\ step'.op = "train"

C15_DecayOncePerEpisode ==
    [][/\ LearningStepTaken => ai'.explorationRate = ai.explorationRate /\ decayCalls' = decayCalls
       /\ (EpisodeSucceeded /\ TrainingResumes) =>
             /\ decayCalls' = decayCalls + 1
             /\ ai'.explorationRate = decayExploration(ai).explorationRate]_vars

\* C16: for a coordinate pair outside the grid (x or y below 0 or beyond the
\* last column or row), isWall returns true (it neither returns false nor
\* throws) and isValidPosition returns false.
OutsideGrid(g, p) == p.x < 0 \/ p.x >= Width(g) \/ p.y < 0 \/ p.y >= Height(g)

C16_OutsideIsWall ==
    /\ (step.op = "isWall" /\ OutsideGrid(grid, step.from)) => step.result = "true"
    /\ (step.op = "isValidPosition" /\ OutsideGrid(grid, step.from)) => step.result = "false"

\* the cells next to (x, y) in the four directions that are path cells of g
Neighbours(g, c) ==
    { d \in { <<c[1], c[2] - 1>>, <<c[1] + 1, c[2]>>, <<c[1], c[2] + 1>>, <<c[1] - 1, c[2]>> } :
        isValidPosition(g, d[1], d[2]) }

\* the path cells connected to the cells of `seen` through path cells
RECURSIVE Connected(_, _)
Connected(g, seen) ==
    LET more == seen \cup UNION { Neighbours(g, c) : c \in seen }
    IN  IF more = seen THEN seen ELSE Connected(g, more)

FromStart(g) == Connected(g, { <<1, 1>> })

\* the pairs of adjacent cells of a set of path cells
Passages(g, cells) == { {c, d} : c \in cells, d \in cells } \ { {c} : c \in cells }
Adjacent(g, cells) == { e \in Passages(g, cells) : \E c \in e : e \subseteq Neighbours(g, c) \cup {c} }

\* C17: a generated maze is a perfect maze: the path cells reachable from the
\* start hold no cycle, i.e. they are joined by exactly one adjacency fewer
\* than there are cells, so each is reached by exactly one simple path.
C17_PerfectMaze ==
    LET cells == FromStart(grid)
    IN  Cardinality(Adjacent(grid, cells)) = Cardinality(cells) - 1

C17_Witness ==
    /\ step.op = "generate"
    /\ Width(grid) > MAZE_SIZE /\ Height(grid) > MAZE_SIZE
    /\ \E c \in FromStart(grid) : Cardinality(Neighbours(grid, c)) > 2

\* C18: after every generate(), a second one on a generated maze included,
\* start (1,1) and goal (width-2, height-2) are path cells and the goal is
\* connected to the start through path cells.
C18_StartGoalConnected ==
    /\ grid[1][1] = 0
    /\ grid[GoalOf(grid)[2]][GoalOf(grid)[1]] = 0
    /\ GoalOf(grid) \in FromStart(grid)

C18_Witness ==
    /\ step.op = "generate"
    /\ Width(grid) # Height(grid)
    /\ GoalOf(grid) \in FromStart(grid) \ { <<1, 1>> }

\* C19: for a Q-table built by learn calls, saveQTable followed by
\* loadQTableFromStorage under the same key gives a table with exactly the
\* same keys and the same four values per key, whatever table the loading
\* agent held before.
C19_SaveLoadRoundTrip ==
    LET saved == saveQTable(ai, localStorage, TRUE)
        fresh == QLearningAgent(Rat(1, 5), Rat(19, 20), R(1), Rat(995, 1000), Rat(1, 100))
    IN  /\ saved.ok
        /\ \A receiver \in {ai, fresh} :
             LET loaded == loadQTableFromStorage(receiver, saved.stored, TRUE)
             IN  /\ loaded.ok
                 /\ DOMAIN loaded.agent.qTable = DOMAIN ai.qTable
                 /\ \A key \in DOMAIN ai.qTable : \A i \in 1 .. 4 :
                      loaded.agent.qTable[key][i] = ai.qTable[key][i]
        /\ (step.op = "load" /\ step.result = "true" /\ localStorage.kind = "array")
              => ai.qTable = MapOfEntries(localStorage.items)

\* a table with a value that is not a whole number has been saved, changed by
\* a further learn call or not, and loaded back
C19_Witness ==
    /\ step.op = "load" /\ step.result = "true"
    /\ localStorage = saveQTable(ai, localStorage, TRUE).stored
    /\ \E key \in DOMAIN ai.qTable : \E i \in 1 .. 4 : ai.qTable[key][i][2] > 10

\* C20: a load that fails (nothing stored under the key, storage unavailable,
\* stored text that cannot be parsed or converted to a map) returns false and
\* leaves the in-memory Q-table exactly as it was.
CannotLoad(stored) ==
    \/ stored.kind \in {"absent", "empty", "invalid", "scalar"}
    \/ stored.kind = "array" /\ \E i \in DOMAIN stored.items : ~stored.items[i].isEntry

C20_FailedLoadKeepsTable ==
    [][step'.op = "load" =>
         /\ (step'.threw \/ CannotLoad(localStorage)) => step'.result = "false"
         /\ step'.result = "false" => ai' = ai]_vars

\* a failed load on an agent that holds a learned table
C20_Witness ==
    /\ step.op = "load" /\ step.result = "false"
    /\ DOMAIN ai.qTable # {}
    /\ ~step.threw
    /\ localStorage.kind \in {"invalid", "scalar", "array"} /\ CannotLoad(localStorage)

\* C21: loading stored data that holds a malformed entry (not a string key
\* with an array of 4 numbers) never throws and leaves the agent with an
\* empty Q-table: no malformed entry is installed.
WellFormed(item) == item.isEntry /\ Len(item.values) = 4
HoldsMalformed(stored) == stored.kind = "array" /\ \E i \in DOMAIN stored.items : ~WellFormed(stored.items[i])

C21_MalformedGivesEmpty ==
    (step.op = "load" /\ HoldsMalformed(localStorage)) =>
        /\ step.result \in {"true", "false"}
        /\ ai.qTable = <<>>

\* C22: the Reset button puts the mouse on the start cell and keeps what was
\* learned: every Q-table entry is there after Reset with the same values;
\* and no step other than the start of a new agent (New Maze) removes a key.
KeepsEntries(before, after) == \A key \in DOMAIN before : key \in DOMAIN after /\ after[key] = before[key]

InRange(lo, hi, v) == IsFinite(v) /\ RLe(lo, v) /\ RLe(v, hi)
Nearest(lo, hi, v, stored) ==
    /\ InRange(lo, hi, stored)
    /\ InRange(lo, hi, v) => stored = v
    /\ (IsFinite(v) /\ RLt(hi, v)) => stored = hi
    /\ (IsFinite(v) /\ RLt(v, lo)) => stored = lo

C23_ClampedToInterval ==
    step.op = "new" =>
        /\ Nearest(R(0), R(1), step.arguments[1], ai.learningRate)
        /\ Nearest(R(0), R(1), step.arguments[2], ai.discountFactor)
        /\ Nearest(R(0), R(1), step.arguments[3], ai.explorationRate)
        /\ RLt(R(0), ai.explorationDecay) /\ RLe(ai.explorationDecay, R(1))
        /\ (InRange(R(0), R(1), step.arguments[4]) /\ step.arguments[4] # R(0))
              => ai.explorationDecay = step.arguments[4]
        /\ (IsFinite(step.arguments[4]) /\ RLt(R(1), step.arguments[4])) => ai.explorationDecay = R(1)
        /\ Nearest(R(0), Rat(1, 5), step.arguments[5], ai.minExplorationRate)

\* C24: every Q-table entry is an array of exactly 4 finite numbers, whatever
\* reward and action learn was given and whatever was loaded.
FourFinite(row) == Len(row) = 4 /\ \A i \in 1 .. 4 : IsFinite(row[i])

C24_RowsStayFourFinite == \A key \in DOMAIN ai.qTable : FourFinite(ai.qTable[key])

\* C25: no failure inside a learning step leaves the step or stops the loop:
\* a frame callback that ran a learning step without reaching the goal has
\* requested the next frame when it ends.
C25_LoopGoesOn ==
    [][(gameLoop /\ ~isPaused /\ ~isPlayMode /\ ~isAtEnd(mouse'))
         => animationInterval' = "pending"]_vars

\* C26: between the step that reaches the goal and the end of that episode's
\* finalization (which puts the mouse back on the start cell) no learning
\* step runs: no learning step starts with the mouse on the goal.
C26_NoStepBeforeFinalization == [][isAtEnd(mouse) => ~LearningStepTaken]_vars

\* C27: the Q-table is saved or loaded only between episodes or while the
\* step loop is paused, never while an episode is in progress (the mouse has
\* left the start cell) with the loop running (a frame is queued).
EpisodeInProgress == mouse.steps > 0 /\ ~isAtEnd(mouse)
LoopRunning == animationInterval = "pending" /\ ~isPaused /\ ~isPlayMode

C27_NoStorageWhileRunning ==
    [][(saveBtn \/ loadBtn) => ~(EpisodeInProgress /\ LoopRunning)]_vars

\* C28: in Play Mode a key press goes through the same pipeline as an action
\* the agent chose: a reward is computed and one Q-update is applied, with the
\* state keys before and after the move.
KeyPressMoves == \E action \in Actions : keydown(action)

C28_KeyPressLearns ==
    [][KeyPressMoves =>
         /\ TotalLearn(ai') = TotalLearn(ai) + 1
         /\ step'.op = "train"
         /\ step'.state = getRelativeState(grid, mouse)
         /\ step'.nextState = getRelativeState(grid, mouse')
         /\ ai' = learn(ai, step'.state, step'.action, step'.reward, step'.nextState)]_vars

\* C29: move(action) returns true exactly when the cell one step in the
\* action's direction is in bounds and not a wall; then x, y are that cell,
\* direction is the action, the cell is added to visited and appended to
\* path and steps grows by 1; otherwise it returns false and x, y, direction,
\* visited, path and steps are unchanged.
OpenCell(g, x, y) == y \in DOMAIN g /\ x \in DOMAIN g[y] /\ g[y][x] # 1

C29_MoveEffect ==
    [][step'.op = "move" =>
         LET action == step'.action
             x == mouse.x + (IF action = 0 THEN 1 ELSE IF action = 2 THEN -1 ELSE 0)
             y == mouse.y + (IF action = 1 THEN 1 ELSE IF action = 3 THEN -1 ELSE 0)
         IN  /\ step'.result = "true" <=> OpenCell(grid, x, y)
             /\ OpenCell(grid, x, y) =>
                  /\ mouse'.x = x /\ mouse'.y = y
                  /\ mouse'.direction = action
                  /\ mouse'.visited = mouse.visited \cup {posKey(x, y)}
                  /\ mouse'.path = Append(mouse.path, [x |-> x, y |-> y])
                  /\ mouse'.steps = mouse.steps + 1
             /\ ~OpenCell(grid, x, y) =>
                  /\ mouse'.x = mouse.x /\ mouse'.y = mouse.y
                  /\ mouse'.direction = mouse.direction
                  /\ mouse'.visited = mouse.visited
                  /\ mouse'.path = mouse.path
                  /\ mouse'.steps = mouse.steps]_vars

\* a refused move after a move that went through
C29_Witness ==
    /\ step.op = "move" /\ step.result = "false"
    /\ mouse.steps > 0 /\ Len(mouse.path) > 0
    /\ step.from = step.to

\* the signed offset to the goal and the wall flags right, down, left, up of a
\* mouse standing on a path cell
OffsetToGoal(g, m) == <<GoalOf(g)[1] - m.x, GoalOf(g)[2] - m.y>>
WallFlags(g, m) == <<g[m.y][m.x + 1] = 1, g[m.y + 1][m.x] = 1, g[m.y][m.x - 1] = 1, g[m.y - 1][m.x] = 1>>

\* every other situation: a mouse on a path cell of a generated maze, with
\* another direction, step count and visited set than the mouse at hand
OtherMice(g) ==
    { [mouse EXCEPT !.x = c[1], !.y = c[2], !.direction = (@ + 1) % 4,
                    !.steps = @ + 1, !.visited = @ \cup {"0,0"}] : c \in FromStart(g) }

\* C30: getRelativeState gives two situations the same key if and only if
\* they have the same signed offset to the goal and the same four wall flags
\* in the order right, down, left, up; direction, steps, visited cells and
\* the absolute position do not matter.
C30_SameKeyIffSameSituation ==
    step.op = "getRelativeState" =>
        \A g \in GeneratedMazes : \A other \in OtherMice(g) :
            (getRelativeState(g, other) = step.state)
                <=> (/\ OffsetToGoal(g, other) = OffsetToGoal(grid, mouse)
                     /\ WallFlags(g, other) = WallFlags(grid, mouse))

\* the key was taken where another maze has a cell with the same offset and
\* walls at another absolute position, and a cell that differs in the flag
\* of the cell above only
C30_Witness ==
    /\ step.op = "getRelativeState"
    /\ \E g \in GeneratedMazes : \E other \in OtherMice(g) :
         /\ getRelativeState(g, other) = step.state
         /\ <<other.x, other.y>> # <<mouse.x, mouse.y>>
    /\ \E g \in GeneratedMazes : \E other \in OtherMice(g) :
         /\ OffsetToGoal(g, other) = OffsetToGoal(grid, mouse)
         /\ \A k \in 1 .. 3 : WallFlags(g, other)[k] = WallFlags(grid, mouse)[k]
         /\ WallFlags(g, other)[4] # WallFlags(grid, mouse)[4]

\* C31: QLearningAgent.reset() returns the agent to its initial untrained
\* state: the Q-table and the state-action counts are empty and the exploration
\* rate is the one the agent was constructed with.  (Under SpecRobust only the
\* constructor and reset() write explorationRate, so the rate an agent holds
\* before reset() is the rate its constructor stored.)
C31_ResetRestoresInitial ==
    [][step'.op = "reset" =>
         /\ ai'.qTable = <<>>
         /\ ai'.stateActionCounts = <<>>
         /\ ai'.explorationRate = ai.explorationRate]_vars

\* C35: no learning update has the goal cell's state key (offset 0,0) as its
\* source state, so in a session that only trains the goal state's row, once
\* present, stays [0, 0, 0, 0].
GoalKey(g) == getRelativeState(g, Mouse(GoalOf(g)[1], GoalOf(g)[2]))

C35_GoalRowUntrained ==
    /\ step.op = "train" => step.state # GoalKey(grid)
    /\ GoalKey(grid) \in DOMAIN ai.qTable => ai.qTable[GoalKey(grid)] = Zeros

\* C36: after generate() every cell of the outer border is a wall, and the four
\* neighbours of every position the mouse occupies or has on its path are
\* inside the grid: getRelativeState (on the mouse's cell) and the analytics'
\* checkAdjacentWalls (on the cells of mouse.path after the first) call isWall
\* with coordinates inside the grid only.
Border(g) == { c \in (0 .. Width(g) - 1) \X (0 .. Height(g) - 1) : c[1] \in {0, Width(g) - 1} \/ c[2] \in {0, Height(g) - 1} }

AroundCell(x, y) == { [x |-> x + 1, y |-> y], [x |-> x, y |-> y + 1], [x |-> x - 1, y |-> y], [x |-> x, y |-> y - 1] }

IsWallArguments(m) == AroundCell(m.x, m.y) \cup UNION { AroundCell(m.path[i].x, m.path[i].y) : i \in 2 .. Len(m.path) }

C36_NoCallOutside ==
    /\ \A c \in Border(grid) : grid[c[2]][c[1]] = 1
    /\ \A p \in IsWallArguments(mouse) : ~OutsideGrid(grid, p)

C36_Witness ==
    /\ step.op = "getRelativeState"
    /\ Len(mouse.path) >= 2
    /\ mouse.x = Width(grid) - 2
    /\ [x |-> Width(grid) - 1, y |-> mouse.y] \in IsWallArguments(mouse)

\* C33: until a run is completed in the session that New Maze has started,
\* the timer of the run before it does not act on that session: while no run
\* is counted, the generation is 0 and the agent's exploration rate is the
\* one it was constructed with.
C33_OldTimerLeavesNewSession ==
    successfulRuns = 0 => generation = 0 /\ ai.explorationRate = R(1)

\* C34: the Q-table stored with a run on the leaderboard is never changed:
\* whatever step the session takes, a run that stays on the leaderboard (runs
\* of one session differ in their generation) keeps the table it was stored
\* with, also after Reset has loaded that table into the agent.
C34_SnapshotsFrozen ==
    [][\A i \in DOMAIN successfulRunsData : \A j \in DOMAIN successfulRunsData' :
          successfulRunsData'[j].generation = successfulRunsData[i].generation
              => successfulRunsData'[j].qTable = successfulRunsData[i].qTable]_vars

\* C38: while the session is in play mode no learning iteration runs and the
\* agent's Q-table and exploration rate stay as they are, the step on which
\* the player reaches the goal and whatever follows it included.  The clicks
\* that replace the agent or its table on the user's request (Reset, New
\* Maze, Load, Try New Maze) are not steps of play.
C38_PlayModeLeavesAgent ==
    [][isPlayMode /\ ~(resetBtnReplay \/ newMazeBtnReplay \/ loadBtnReplay \/ nextMazeBtn)
          => /\ ai'.qTable = ai.qTable
             /\ ai'.explorationRate = ai.explorationRate
             /\ ai'.experienceBuffer = ai.experienceBuffer]_vars

\* C32: the click on Try New Maze leaves a newly generated maze, the agent
\* holding the table it had on the old maze, and a session in which training
\* goes on: it is not paused, or a resume timer is pending.  (isPaused is
\* cleared by the timer callbacks alone, and a timer is armed only by a
\* completed run, which a paused session cannot have, or by the overlay;
\* a session left paused with no timer and no overlay never trains again.)
C32_TryNewMazeTrains ==
    [][nextMazeBtn => /\ grid' \in generate
                      /\ ai'.qTable = ai.qTable
                      /\ (isPaused' => timeouts' > 0 \/ overlay')]_vars

\* C39: the recorded runs are always in ascending order of their steps and
\* never more than MAX_SCOREBOARD_ENTRIES, and a click on Reset with at least
\* one recorded run leaves in the agent the table as it was taken at the end
\* of a recorded run that no recorded run beats in steps.
LeaderboardInOrder(runs) ==
    /\ Len(runs) <= MAX_SCOREBOARD_ENTRIES
    /\ \A i, j \in DOMAIN runs : i < j => runs[i].steps <= runs[j].steps

C39_ResetLoadsBestRun ==
    [][/\ LeaderboardInOrder(successfulRunsData')
       /\ resetBtnReplay /\ Len(successfulRunsData) > 0
            => \E k \in DOMAIN successfulRunsData :
                  /\ \A i \in DOMAIN successfulRunsData :
                        successfulRunsData[k].steps <= successfulRunsData[i].steps
                  /\ ai'.qTable = successfulRunsData[k].taken]_vars

====
